---- MODULE Spec2Model ----
(***************************************************************************)
(* msgraph-cli: terminal dashboard over the Graph API with a webhook       *)
(* receiver.  The module models process start-up (main), the webhook HTTP  *)
(* handlers, the notification aggregator (processWebhookUpdates), the UI    *)
(* event loop with its menu handlers and input-field callbacks, and the    *)
(* App mutex.                                                               *)
(*                                                                         *)
(* The sources hold two revisions of the program.  "server" is the         *)
(* revision with the notification channel: WebhookServer.handleWebhook     *)
(* sends to webhookChan and processWebhookUpdates batches.  "legacy" is    *)
(* the revision whose main registers App.handleWebhook, which queues the   *)
(* append on the UI loop directly.  The variable build says which one is   *)
(* running.                                                                *)
(*                                                                         *)
(* Strings are sequences of tokens: a format verb's argument is one token, *)
(* the literal text around it the other tokens.                            *)
(***************************************************************************)
EXTENDS Integers, Sequences, FiniteSets, TLC

\* ---------------------------------------------------------------- bounds
\* number of webhook requests that arrive in one run
MaxReq == 2
\* capacity of webhookChan in the model; the code makes it with 100
WebhookChanCap == 1
\* number of menu selections and Enter keys handled in one run
MaxKeys == 2
\* number of keys handled in a run that follows the input field
MaxInputKeys == 5
MaxEvents == 2
MaxPrompts == 3
MaxCallers == 2
MaxCalls == 4

\* ------------------------------------------------------- input domains
Methods == {"POST", "GET"}
NoToken == ""
QueryTokens == {NoToken, "tokA"}
Bodies == {"b1", "b2"}
RequiredVars == {"CLIENT_ID", "CLIENT_SECRET", "TENANT_ID", "ORGANISER_EMAIL",
                 "ROOM_EMAIL", "ENDPOINT", "PORT"}
CredentialVars == {"CLIENT_ID", "CLIENT_SECRET", "TENANT_ID"}
Builds == {"server", "legacy"}

VARIABLES
  build,          \* which revision of main/NewApp is running
  dotenvOk,       \* godotenv.Load() found and parsed .env
  env,            \* the environment variables that are set (non-empty)
  mainPc,         \* position of main
  proc,           \* "running", "exited" (os.Exit) or "panicked"
  uiShown,        \* app.app.Run() has started the event loop
  serverPc,       \* position of the webhook server goroutine
  webhookChan,    \* a.webhookChan, a sequence of strings
  updates,        \* local slice of processWebhookUpdates
  aggPc,          \* position of processWebhookUpdates
  uiUpdates,      \* tview's queue of functions passed to QueueUpdateDraw
  uiPc,           \* position of the UI goroutine
  uiCur,          \* the handler the UI goroutine is in
  mu,             \* a.mu: "free" or the goroutine holding it
  output,         \* text of a.output
  webhookOutput,  \* text of a.webhookOutput
  inputDone,      \* done func of a.inputField: "default" or "delete"
  deleteEmail,    \* email captured by the delete done func
  focus,          \* primitive that has the focus
  keys,           \* number of keys handled so far
  reqs,           \* webhook requests, by id
  nextReq,        \* id of the next request
  received,       \* history: every string processWebhookUpdates received
  appended,       \* history: every string handed to appendToWebhookOutput by a tick
  window,         \* history: strings received since the latest tick
  lastTick,       \* history: window, appends and text of the latest tick
  lastWrite,      \* history: panel and lock state of the latest panel write
  chanClosed,     \* close(a.webhookChan) has been executed
  ctx,            \* the context the callers of the Graph helper pass
  api,            \* the Graph request of the handler the UI goroutine is in
  inputText,      \* text of a.inputField
  lastKey,        \* history: the latest key handled and the text Enter read
  keyLimit,       \* the number of keys the user presses in this run
  callUser,       \* the user id the Graph request in api is made for
  render,         \* the Graph helper printing the events of a response
  cli,            \* the text menu program (msgraph-cli.go)
  cache           \* GraphHelper.cache and the callers of GetRoom

vars == <<build, dotenvOk, env, mainPc, proc, uiShown, serverPc, webhookChan,
          updates, aggPc, uiUpdates, uiPc, uiCur, mu, output, webhookOutput,
          inputDone, deleteEmail, focus, keys, reqs, nextReq, received,
          appended, window, lastTick, lastWrite, chanClosed, ctx,
          api, inputText, lastKey, keyLimit, callUser, render, cli, cache>>

\* the parts modelled on their own, which no action of the dashboard changes
helperVars == <<render, cli, cache>>
\* what the dashboard leaves as it was when main started
startupVars == <<build, dotenvOk, env, ctx, keyLimit, helperVars>>
\* the variables of the dashboard
dashboardVars ==
  <<build, dotenvOk, env, mainPc, proc, uiShown, serverPc, webhookChan,
    updates, aggPc, uiUpdates, uiPc, uiCur, mu, output, webhookOutput,
    inputDone, deleteEmail, focus, keys, reqs, nextReq, received, appended,
    window, lastTick, lastWrite, chanClosed, ctx, api, inputText, lastKey,
    keyLimit, callUser>>
panelVars == <<output, webhookOutput, lastWrite>>
inputVars == <<inputDone, deleteEmail, focus, inputText>>
aggVars == <<updates, aggPc, received, appended, window, lastTick>>
reqVars == <<reqs, nextReq>>

\* ------------------------------------------------------------ strings
\* time.Now().Format("15:04:05"): one token, the clock is not modelled
Now == "hh:mm:ss"

RECURSIVE JoinBackwards(_, _)
\* Join putting the elements in the opposite order
JoinBackwards(elems, sep) ==
  IF Len(elems) = 0 THEN <<>>
  ELSE IF Len(elems) = 1 THEN elems[1]
  ELSE JoinBackwards(Tail(elems), sep) \o <<sep>> \o elems[1]

RECURSIVE Join(_, _)
\* strings.Join(elems, sep)
Join(elems, sep) ==
  IF Len(elems) = 0 THEN <<>>
  ELSE IF Len(elems) = 1 THEN elems[1]
  ELSE elems[1] \o <<sep>> \o Join(Tail(elems), sep)

FmtMethodNotAllowed(m) == <<"[", Now, "] Method not allowed: ", m, "\n">>
FmtValidationSent(t) ==
  <<"[yellow][", Now, "][white] Validation token sent: ", t, "\n">>
FmtReadFailed ==
  <<"[yellow][", Now, "][white] Failed to read request body: ", "err", "\n">>
\* FmtReceived with the body left out
FmtReceivedNoBody(b) ==
  <<"[yellow][", Now, "][white] Received notification: ", "\n">>
FmtReceived(b) ==
  <<"[yellow][", Now, "][white] Received notification: ", b, "\n">>
FmtStarting(port) ==
  <<"[yellow][", Now, "][white] Webhook server starting on port ", port, "...\n">>
FmtLegacyValidation(t) == <<"[green]Validation token received:[white] ", t, "\n">>
FmtLegacyNotification(b) == <<"[yellow]Webhook notification:[white] ", b, "\n">>

NoReq == [pc |-> "none", method |-> "", token |-> NoToken, readOk |-> TRUE,
          body |-> "", status |-> 0, resp |-> "", sent |-> <<>>]
NoTick == [window |-> <<>>, appends |-> 0, text |-> <<>>]
NoWrite == [panel |-> "none", locked |-> TRUE]

\* a context is modelled by its deadline in seconds; context.Background() has none
NoDeadline == 0
Background == NoDeadline
\* the deadlines of a caller's context that are looked at
Deadlines == {NoDeadline, 10, 30, 60}
NoHandler == [name |-> "none", arg |-> ""]
NoCall == [op |-> "", n |-> 0, deadline |-> NoDeadline, result |-> "none"]
NoKey == [key |-> "none", text |-> ""]
NoRender == [fn |-> "none", events |-> <<>>, i |-> 0, out |-> <<>>,
             pc |-> "off", cause |-> ""]
NoCli == [pc |-> "off", server |-> "off", input |-> "", choice |-> -1,
          prompts |-> 0, ran |-> <<>>, invalid |-> 0]
NoCache == [rooms |-> {}, readers |-> {}, writer |-> 0, pc |-> <<>>,
            arg |-> <<>>, ret |-> <<>>, calls |-> 0]

\* the environments looked at: every variable set, or exactly one missing
Envs == {RequiredVars} \cup {RequiredVars \ {v} : v \in RequiredVars}

\* the state when main starts, for builds B, .env outcomes D, environments E,
\* contexts C of the callers of the Graph helper and K keys pressed in the run
InitDashboard(B, D, E, C, K) ==
  /\ build \in B
  /\ dotenvOk \in D
  /\ env \in E
  /\ ctx \in C
  /\ keyLimit = K
  /\ mainPc = "load"
  /\ proc = "running"
  /\ uiShown = FALSE
  /\ serverPc = "none"
  /\ webhookChan = <<>>
  /\ updates = <<>>
  /\ aggPc = "none"
  /\ uiUpdates = <<>>
  /\ uiPc = "off"
  /\ uiCur = NoHandler
  /\ mu = "free"
  /\ output = <<>>
  /\ webhookOutput = <<>>
  /\ inputDone = "default"
  /\ deleteEmail = ""
  /\ focus = "menu"
  /\ keys = 0
  /\ reqs = [i \in 1..MaxReq |-> NoReq]
  /\ nextReq = 1
  /\ received = <<>>
  /\ appended = <<>>
  /\ window = <<>>
  /\ lastTick = NoTick
  /\ lastWrite = NoWrite
  /\ chanClosed = FALSE
  /\ api = NoCall
  /\ inputText = ""
  /\ lastKey = NoKey
  /\ callUser = ""

\* the dashboard starts; the parts modelled on their own are not running
InitSession(B, D, E, C, K) ==
  /\ InitDashboard(B, D, E, C, K)
  /\ render = NoRender
  /\ cli = NoCli
  /\ cache = NoCache

\* the state when main starts, the user pressing MaxKeys keys
InitStateCtx(B, D, E, C) == InitSession(B, D, E, C, MaxKeys)

\* the program: every caller passes context.Background()
InitState(B, D, E) == InitStateCtx(B, D, E, {Background})

\* ------------------------------------------------------------ start-up
\* main: godotenv.Load(); log.Fatal when .env cannot be loaded
LoadEnv ==
  /\ proc = "running" /\ mainPc = "load"
  /\ IF dotenvOk
       THEN mainPc' = "init" /\ proc' = proc
       ELSE mainPc' = "load" /\ proc' = "exited"
  /\ UNCHANGED <<startupVars, chanClosed, api, callUser, uiShown, serverPc, webhookChan, aggVars,
                 uiUpdates, uiPc, uiCur, mu, panelVars, inputVars, keys, lastKey, reqVars>>

\* azidentity.NewClientSecretCredential and the two constructors after it:
\* library code.  With the three credential variables set they succeed; with
\* one of them empty the library decides, so both outcomes are possible.
InitGraphOutcomes ==
  IF CredentialVars \subseteq env THEN {"ok"} ELSE {"ok", "err"}

\* initializeGraph: log.Panicf when InitializeGraphForAppAuth returns an error
InitGraph ==
  /\ proc = "running" /\ mainPc = "init"
  /\ \E r \in InitGraphOutcomes :
       IF r = "ok"
         THEN mainPc' = "newApp" /\ proc' = proc
         ELSE mainPc' = "init" /\ proc' = "panicked"
  /\ UNCHANGED <<startupVars, chanClosed, api, callUser, uiShown, serverPc, webhookChan, aggVars,
                 uiUpdates, uiPc, uiCur, mu, panelVars, inputVars, keys, lastKey, reqVars>>

\* NewApp: setupUI installs the default done func and gives the menu the
\* focus.  The server revision starts processWebhookUpdates.  The legacy
\* setupUI prints the help text and the endpoint into the fresh panels, and
\* its GetNotificationUrl is a log.Fatal when ENDPOINT is empty.
NewApp ==
  /\ proc = "running" /\ mainPc = "newApp"
  /\ IF build = "legacy" /\ "ENDPOINT" \notin env
       THEN /\ proc' = "exited"
            /\ UNCHANGED <<mainPc, inputVars, aggPc, output, webhookOutput>>
       ELSE /\ proc' = proc
            /\ mainPc' = "organiser"
            /\ inputDone' = "default" /\ focus' = "menu"
            /\ deleteEmail' = deleteEmail
            /\ inputText' = ""
            /\ aggPc' = IF build = "server" THEN "select" ELSE "none"
            /\ output' = IF build = "legacy" THEN <<"Navigation Help">> ELSE output
            /\ webhookOutput' =
                 IF build = "legacy"
                   THEN <<"Webhook Endpoint: ", "ENDPOINT", "\n", "Listening\n">>
                   ELSE webhookOutput
  /\ UNCHANGED <<startupVars, chanClosed, api, callUser, uiShown, serverPc, webhookChan, updates,
                 received, appended, window, lastTick, lastWrite, uiUpdates,
                 uiPc, uiCur, mu, keys, lastKey, reqVars>>

\* GetOrganiserEmail / GetRoomEmail: log.Fatal when the variable is empty
GetEmail(pc, v, nxt) ==
  /\ proc = "running" /\ mainPc = pc
  /\ IF v \in env
       THEN mainPc' = nxt /\ proc' = proc
       ELSE mainPc' = pc /\ proc' = "exited"
  /\ UNCHANGED <<startupVars, chanClosed, api, callUser, uiShown, serverPc, webhookChan, aggVars,
                 uiUpdates, uiPc, uiCur, mu, panelVars, inputVars, keys, lastKey, reqVars>>

GetOrganiserEmail == GetEmail("organiser", "ORGANISER_EMAIL", "room")
GetRoomEmail == GetEmail("room", "ROOM_EMAIL", "spawn")

\* main: go func() { webhookServer.Start() }()
SpawnServer ==
  /\ proc = "running" /\ mainPc = "spawn"
  /\ mainPc' = "run"
  /\ serverPc' = "getPort"
  /\ UNCHANGED <<startupVars, chanClosed, api, callUser, proc, uiShown, webhookChan, aggVars, uiUpdates,
                 uiPc, uiCur, mu, panelVars, inputVars, keys, lastKey, reqVars>>

\* main: app.app.Run() starts the event loop and shows the UI
RunUI ==
  /\ proc = "running" /\ mainPc = "run"
  /\ mainPc' = "loop"
  /\ uiShown' = TRUE
  /\ uiPc' = "idle"
  /\ UNCHANGED <<startupVars, chanClosed, api, callUser, proc, serverPc, webhookChan, aggVars, uiUpdates,
                 uiCur, mu, panelVars, inputVars, keys, lastKey, reqVars>>

\* main: Run() returns an error (the screen cannot be initialised): log.Fatal
RunFail ==
  /\ proc = "running" /\ mainPc = "run"
  /\ proc' = "exited"
  /\ UNCHANGED <<startupVars, chanClosed, api, callUser, mainPc, uiShown, serverPc, webhookChan, aggVars,
                 uiUpdates, uiPc, uiCur, mu, panelVars, inputVars, keys, lastKey, reqVars>>

\* GetPort: log.Fatal when PORT is empty (the assignment after it never runs)
ServerGetPort ==
  /\ proc = "running" /\ serverPc = "getPort"
  /\ IF "PORT" \in env
       THEN /\ serverPc' = IF build = "server" THEN "announce" ELSE "listening"
            /\ proc' = proc
       ELSE serverPc' = "getPort" /\ proc' = "exited"
  /\ UNCHANGED <<startupVars, chanClosed, api, callUser, mainPc, uiShown, webhookChan, aggVars, uiUpdates,
                 uiPc, uiCur, mu, panelVars, inputVars, keys, lastKey, reqVars>>

\* WebhookServer.Start: the send on webhookChan, then ListenAndServe
ServerAnnounce ==
  /\ proc = "running" /\ serverPc = "announce"
  /\ Len(webhookChan) < WebhookChanCap
  /\ webhookChan' = Append(webhookChan, FmtStarting(":port"))
  /\ serverPc' = "listening"
  /\ UNCHANGED <<startupVars, chanClosed, api, callUser, mainPc, proc, uiShown, aggVars, uiUpdates,
                 uiPc, uiCur, mu, panelVars, inputVars, keys, lastKey, reqVars>>

\* http.ListenAndServe returns an error (the port cannot be bound, so no
\* request has been served): log.Fatalf
ServerListenFail ==
  /\ proc = "running" /\ serverPc = "listening"
  /\ nextReq = 1
  /\ proc' = "exited"
  /\ UNCHANGED <<startupVars, chanClosed, api, callUser, mainPc, uiShown, serverPc, webhookChan, aggVars,
                 uiUpdates, uiPc, uiCur, mu, panelVars, inputVars, keys, lastKey, reqVars>>

Startup ==
  \/ LoadEnv \/ InitGraph \/ NewApp \/ GetOrganiserEmail \/ GetRoomEmail
  \/ SpawnServer \/ RunUI \/ RunFail
  \/ ServerGetPort \/ ServerAnnounce \/ ServerListenFail

\* ------------------------------------------------- webhook requests
\* WSBranch with the validation test moved in front of the method test
WSBranchTokenFirst(method, token, readOk) ==
  IF token # NoToken THEN "validate"
  ELSE IF method # "POST" THEN "reject"
  ELSE IF ~readOk THEN "readfail"
  ELSE "notify"

\* WSBranch without the test of the read error
WSBranchIgnoreReadError(method, token, readOk) ==
  IF method # "POST" THEN "reject"
  ELSE IF token # NoToken THEN "validate"
  ELSE "notify"

\* WebhookServer.handleWebhook: the branch taken, in the order of its tests
WSBranch(method, token, readOk) ==
  IF method # "POST" THEN "reject"
  ELSE IF token # NoToken THEN "validate"
  ELSE IF ~readOk THEN "readfail"
  ELSE "notify"

\* App.handleWebhook: the body is read before the token is looked at
AppBranch(method, token, readOk) ==
  IF method # "POST" THEN "reject"
  ELSE IF ~readOk THEN "readfail"
  ELSE IF token # NoToken THEN "validate"
  ELSE "notify"

Branch(r) ==
  IF build = "server" THEN WSBranch(r.method, r.token, r.readOk)
  ELSE AppBranch(r.method, r.token, r.readOk)

\* Response with the validation branch answering the fixed text
ResponseFixedText(branch, token) ==
  CASE branch = "reject" -> [status |-> 405, resp |-> "Method not allowed\n"]
    [] branch = "readfail" ->
         [status |-> 500, resp |-> "Failed to read request body\n"]
    [] OTHER -> [status |-> 200, resp |-> "Notification received"]

\* the status and body each branch writes; http.Error ends the text with \n
Response(branch, token) ==
  CASE branch = "reject" -> [status |-> 405, resp |-> "Method not allowed\n"]
    [] branch = "validate" -> [status |-> 200, resp |-> token]
    [] branch = "readfail" ->
         [status |-> 500, resp |-> "Failed to read request body\n"]
    [] branch = "notify" -> [status |-> 200, resp |-> "Notification received"]

\* the string WebhookServer.handleWebhook sends on webhookChan
WSMessage(branch, r) ==
  CASE branch = "reject" -> FmtMethodNotAllowed(r.method)
    [] branch = "validate" -> FmtValidationSent(r.token)
    [] branch = "readfail" -> FmtReadFailed
    [] branch = "notify" -> FmtReceived(r.body)

\* the string App.handleWebhook passes to appendToWebhookOutput
AppMessage(branch, r) ==
  IF branch = "validate" THEN FmtLegacyValidation(r.token)
  ELSE FmtLegacyNotification(r.body)

Respond(i, branch) ==
  [reqs EXCEPT ![i].status = Response(branch, reqs[i].token).status,
               ![i].resp = Response(branch, reqs[i].token).resp]

\* net/http accepts a request and starts its handler
ArriveFrom(M, T, OK, B) ==
  /\ proc = "running" /\ serverPc = "listening"
  /\ nextReq <= MaxReq
  /\ \E m \in M, t \in T, ok \in OK, b \in B :
       reqs' = [reqs EXCEPT ![nextReq] =
                  [NoReq EXCEPT !.pc = "start", !.method = m, !.token = t,
                                !.readOk = ok, !.body = b]]
  /\ nextReq' = nextReq + 1
  /\ UNCHANGED <<startupVars, chanClosed, api, callUser, mainPc, proc, uiShown, serverPc, webhookChan,
                 aggVars, uiUpdates, uiPc, uiCur, mu, panelVars, inputVars, keys, lastKey>>

\* WSSend taking a.mu around the send
WSSendUnderMutex(i) ==
  /\ proc = "running" /\ build = "server"
  /\ reqs[i].pc = "start"
  /\ Branch(reqs[i]) \in {"reject", "readfail", "notify"}
  /\ mu = "free"
  /\ Len(webhookChan) < WebhookChanCap
  /\ webhookChan' = Append(webhookChan, WSMessage(Branch(reqs[i]), reqs[i]))
  /\ reqs' = [reqs EXCEPT ![i].pc = "sent",
                ![i].sent = Append(@, WSMessage(Branch(reqs[i]), reqs[i]))]
  /\ UNCHANGED <<startupVars, chanClosed, api, callUser, mainPc, proc, uiShown, serverPc, aggVars,
                 uiUpdates, uiPc, uiCur, mu, panelVars, inputVars, keys, lastKey, nextReq>>

\* WSSend putting its string over the newest one when the channel is full
WSSendOverwrites(i) ==
  /\ proc = "running" /\ build = "server"
  /\ reqs[i].pc = "start"
  /\ Branch(reqs[i]) \in {"reject", "readfail", "notify"}
  /\ webhookChan' =
       IF Len(webhookChan) < WebhookChanCap
         THEN Append(webhookChan, WSMessage(Branch(reqs[i]), reqs[i]))
         ELSE [webhookChan EXCEPT ![Len(webhookChan)] =
                 WSMessage(Branch(reqs[i]), reqs[i])]
  /\ reqs' = [reqs EXCEPT ![i].pc = "sent",
                ![i].sent = Append(@, WSMessage(Branch(reqs[i]), reqs[i]))]
  /\ UNCHANGED <<startupVars, chanClosed, api, callUser, mainPc, proc, uiShown, serverPc,
                 aggVars, uiUpdates, uiPc, uiCur, mu, panelVars, inputVars,
                 keys, lastKey, nextReq>>

\* WSSend with the rejected request answered without a log string
WSSendRejectSilent(i) ==
  /\ proc = "running" /\ build = "server"
  /\ reqs[i].pc = "start"
  /\ Branch(reqs[i]) \in {"reject", "readfail", "notify"}
  /\ IF Branch(reqs[i]) = "reject"
       THEN /\ webhookChan' = webhookChan
            /\ reqs' = [reqs EXCEPT ![i].pc = "sent"]
       ELSE /\ Len(webhookChan) < WebhookChanCap
            /\ webhookChan' = Append(webhookChan, WSMessage(Branch(reqs[i]), reqs[i]))
            /\ reqs' = [reqs EXCEPT ![i].pc = "sent",
                          ![i].sent = Append(@, WSMessage(Branch(reqs[i]), reqs[i]))]
  /\ UNCHANGED <<startupVars, chanClosed, api, callUser, mainPc, proc, uiShown, serverPc,
                 aggVars, uiUpdates, uiPc, uiCur, mu, panelVars, inputVars,
                 keys, lastKey, nextReq>>

\* WebhookServer.handleWebhook, the three branches that send before they reply
WSSend(i) ==
  /\ proc = "running" /\ build = "server"
  /\ reqs[i].pc = "start"
  /\ Branch(reqs[i]) \in {"reject", "readfail", "notify"}
  /\ Len(webhookChan) < WebhookChanCap
  /\ webhookChan' = Append(webhookChan, WSMessage(Branch(reqs[i]), reqs[i]))
  /\ reqs' = [reqs EXCEPT ![i].pc = "sent",
                ![i].sent = Append(@, WSMessage(Branch(reqs[i]), reqs[i]))]
  /\ UNCHANGED <<startupVars, chanClosed, api, callUser, mainPc, proc, uiShown, serverPc, aggVars,
                 uiUpdates, uiPc, uiCur, mu, panelVars, inputVars, keys, lastKey, nextReq>>

\* WSReply answering before the send and leaving the send out
WSReplyBeforeSend(i) ==
  /\ proc = "running" /\ build = "server"
  /\ reqs[i].pc \in {"start", "sent"}
  /\ Branch(reqs[i]) # "validate"
  /\ reqs' = [Respond(i, Branch(reqs[i])) EXCEPT ![i].pc = "done"]
  /\ UNCHANGED <<startupVars, chanClosed, api, callUser, mainPc, proc, uiShown, serverPc,
                 webhookChan, aggVars, uiUpdates, uiPc, uiCur, mu, panelVars,
                 inputVars, keys, lastKey, nextReq>>

\* WebhookServer.handleWebhook: the reply that follows the send
WSReply(i) ==
  /\ proc = "running" /\ build = "server"
  /\ reqs[i].pc = "sent"
  /\ reqs' = [Respond(i, Branch(reqs[i])) EXCEPT ![i].pc = "done"]
  /\ UNCHANGED <<startupVars, chanClosed, api, callUser, mainPc, proc, uiShown, serverPc, webhookChan,
                 aggVars, uiUpdates, uiPc, uiCur, mu, panelVars, inputVars,
                 keys, lastKey, nextReq>>

\* WebhookServer.handleWebhook, validation: the token is written first
WSValidateWrite(i) ==
  /\ proc = "running" /\ build = "server"
  /\ reqs[i].pc = "start"
  /\ Branch(reqs[i]) = "validate"
  /\ reqs' = [Respond(i, "validate") EXCEPT ![i].pc = "written"]
  /\ UNCHANGED <<startupVars, chanClosed, api, callUser, mainPc, proc, uiShown, serverPc, webhookChan,
                 aggVars, uiUpdates, uiPc, uiCur, mu, panelVars, inputVars,
                 keys, lastKey, nextReq>>

WSValidateLog(i) ==
  /\ proc = "running" /\ build = "server"
  /\ reqs[i].pc = "written"
  /\ Len(webhookChan) < WebhookChanCap
  /\ webhookChan' = Append(webhookChan, WSMessage("validate", reqs[i]))
  /\ reqs' = [reqs EXCEPT ![i].pc = "done",
                ![i].sent = Append(@, WSMessage("validate", reqs[i]))]
  /\ UNCHANGED <<startupVars, chanClosed, api, callUser, mainPc, proc, uiShown, serverPc, aggVars,
                 uiUpdates, uiPc, uiCur, mu, panelVars, inputVars, keys, lastKey, nextReq>>

\* App.handleWebhook, the two branches that only reply
AppReply(i) ==
  /\ proc = "running" /\ build = "legacy"
  /\ reqs[i].pc = "start"
  /\ Branch(reqs[i]) \in {"reject", "readfail"}
  /\ reqs' = [Respond(i, Branch(reqs[i])) EXCEPT ![i].pc = "done"]
  /\ UNCHANGED <<startupVars, chanClosed, api, callUser, mainPc, proc, uiShown, serverPc, webhookChan,
                 aggVars, uiUpdates, uiPc, uiCur, mu, panelVars, inputVars,
                 keys, lastKey, nextReq>>

\* App.handleWebhook, validation: the token is written before the append
AppValidateWrite(i) ==
  /\ proc = "running" /\ build = "legacy"
  /\ reqs[i].pc = "start"
  /\ Branch(reqs[i]) = "validate"
  /\ reqs' = [Respond(i, "validate") EXCEPT ![i].pc = "written"]
  /\ UNCHANGED <<startupVars, chanClosed, api, callUser, mainPc, proc, uiShown, serverPc, webhookChan,
                 aggVars, uiUpdates, uiPc, uiCur, mu, panelVars, inputVars,
                 keys, lastKey, nextReq>>

\* App.handleWebhook calls appendToWebhookOutput: QueueUpdateDraw queues the
\* function and returns once the event loop has run it
AppQueue(i) ==
  /\ proc = "running" /\ build = "legacy"
  /\ \/ reqs[i].pc = "written"
     \/ reqs[i].pc = "start" /\ Branch(reqs[i]) = "notify"
  /\ uiUpdates' = Append(uiUpdates,
       [text |-> AppMessage(Branch(reqs[i]), reqs[i]), waiter |-> i])
  /\ reqs' = [reqs EXCEPT ![i].pc = "waiting",
                ![i].sent = Append(@, AppMessage(Branch(reqs[i]), reqs[i]))]
  /\ UNCHANGED <<startupVars, chanClosed, api, callUser, mainPc, proc, uiShown, serverPc, webhookChan,
                 aggVars, uiPc, uiCur, mu, panelVars, inputVars, keys, lastKey, nextReq>>

\* App.handleWebhook after appendToWebhookOutput has returned
AppResume(i) ==
  /\ proc = "running" /\ build = "legacy"
  /\ reqs[i].pc = "resumed"
  /\ reqs' = IF Branch(reqs[i]) = "notify"
               THEN [Respond(i, "notify") EXCEPT ![i].pc = "done"]
               ELSE [reqs EXCEPT ![i].pc = "done"]
  /\ UNCHANGED <<startupVars, chanClosed, api, callUser, mainPc, proc, uiShown, serverPc, webhookChan,
                 aggVars, uiUpdates, uiPc, uiCur, mu, panelVars, inputVars,
                 keys, lastKey, nextReq>>

\* any request
Arrive == ArriveFrom(Methods, QueryTokens, BOOLEAN, Bodies)
\* a POST
ArrivePost == ArriveFrom({"POST"}, QueryTokens, BOOLEAN, {"b1"})

Handle ==
  \E i \in 1..MaxReq :
       \/ WSSend(i) \/ WSReply(i) \/ WSValidateWrite(i) \/ WSValidateLog(i)
       \/ AppReply(i) \/ AppValidateWrite(i) \/ AppQueue(i) \/ AppResume(i)

Webhook == Arrive \/ Handle

\* ---------------------------------------------------- aggregator
\* processWebhookUpdates: case update := <-a.webhookChan
AggReceive ==
  /\ proc = "running" /\ aggPc = "select"
  /\ webhookChan # <<>>
  /\ updates' = Append(updates, Head(webhookChan))
  /\ webhookChan' = Tail(webhookChan)
  /\ received' = Append(received, Head(webhookChan))
  /\ window' = Append(window, Head(webhookChan))
  /\ UNCHANGED <<startupVars, chanClosed, api, callUser, mainPc, proc, uiShown, serverPc, aggPc, appended,
                 lastTick, uiUpdates, uiPc, uiCur, mu, panelVars, inputVars,
                 keys, lastKey, reqVars>>

\* processWebhookUpdates: case <-ticker.C; with a batch it calls
\* appendToWebhookOutput, which returns once the event loop has run the append
AggTick ==
  /\ proc = "running" /\ aggPc = "select"
  /\ IF Len(updates) > 0
       THEN /\ uiUpdates' = Append(uiUpdates,
                 [text |-> Join(updates, "\n"), waiter |-> 0])
            /\ aggPc' = "waiting"
            /\ appended' = appended \o updates
            /\ lastTick' = [window |-> window, appends |-> 1,
                            text |-> Join(updates, "\n")]
       ELSE /\ UNCHANGED <<uiUpdates, aggPc, appended>>
            /\ lastTick' = [window |-> window, appends |-> 0, text |-> <<>>]
  /\ window' = <<>>
  /\ UNCHANGED <<startupVars, chanClosed, api, callUser, mainPc, proc, uiShown, serverPc, webhookChan,
                 updates, received, uiPc, uiCur, mu, panelVars, inputVars,
                 keys, lastKey, reqVars>>

\* AggClear leaving the batch as it is
AggClearKeepsBatch ==
  /\ proc = "running" /\ aggPc = "resumed"
  /\ aggPc' = "select"
  /\ UNCHANGED <<startupVars, chanClosed, api, callUser, mainPc, proc, uiShown, serverPc, webhookChan,
                 updates, received, appended, window, lastTick, uiUpdates, uiPc,
                 uiCur, mu, panelVars, inputVars, keys, lastKey, reqVars>>

\* processWebhookUpdates: updates = updates[:0] after the append has returned
AggClear ==
  /\ proc = "running" /\ aggPc = "resumed"
  /\ updates' = SubSeq(updates, 1, 0)
  /\ aggPc' = "select"
  /\ UNCHANGED <<startupVars, chanClosed, api, callUser, mainPc, proc, uiShown, serverPc, webhookChan,
                 received, appended, window, lastTick, uiUpdates, uiPc, uiCur,
                 mu, panelVars, inputVars, keys, lastKey, reqVars>>

Aggregator == AggReceive \/ AggTick \/ AggClear

\* ---------------------------------------------------- UI event loop
\* the function queued by appendToWebhookOutput starts: a.mu.Lock()
UpdateBegin ==
  /\ proc = "running" /\ uiPc = "idle"
  /\ uiUpdates # <<>>
  /\ mu = "free"
  /\ mu' = "ui"
  /\ uiPc' = "update"
  /\ UNCHANGED <<startupVars, chanClosed, api, callUser, mainPc, proc, uiShown, serverPc, webhookChan,
                 aggVars, uiUpdates, uiCur, panelVars, inputVars, keys, lastKey, reqVars>>

\* UpdateEnd without the write to the panel
UpdateEndDropsText ==
  /\ proc = "running" /\ uiPc = "update"
  /\ webhookOutput' = webhookOutput
  /\ lastWrite' = [panel |-> "webhook", locked |-> mu = "ui"]
  /\ mu' = "free"
  /\ uiPc' = "idle"
  /\ uiUpdates' = Tail(uiUpdates)
  /\ IF Head(uiUpdates).waiter = 0
       THEN aggPc' = "resumed" /\ reqs' = reqs
       ELSE /\ reqs' = [reqs EXCEPT ![Head(uiUpdates).waiter].pc = "resumed"]
            /\ aggPc' = aggPc
  /\ UNCHANGED <<startupVars, chanClosed, api, callUser, mainPc, proc, uiShown, serverPc,
                 webhookChan, updates, received, appended, window, lastTick,
                 uiCur, output, inputVars, keys, lastKey, nextReq>>

\* UpdateEnd putting the text in front of the panel's text
UpdateEndPrepends ==
  /\ proc = "running" /\ uiPc = "update"
  /\ webhookOutput' = Head(uiUpdates).text \o webhookOutput
  /\ lastWrite' = [panel |-> "webhook", locked |-> mu = "ui"]
  /\ mu' = "free"
  /\ uiPc' = "idle"
  /\ uiUpdates' = Tail(uiUpdates)
  /\ IF Head(uiUpdates).waiter = 0
       THEN aggPc' = "resumed" /\ reqs' = reqs
       ELSE /\ reqs' = [reqs EXCEPT ![Head(uiUpdates).waiter].pc = "resumed"]
            /\ aggPc' = aggPc
  /\ UNCHANGED <<startupVars, chanClosed, api, callUser, mainPc, proc, uiShown, serverPc,
                 webhookChan, updates, received, appended, window, lastTick,
                 uiCur, output, inputVars, keys, lastKey, nextReq>>

\* the queued function writes the text, unlocks and the waiting caller of
\* QueueUpdateDraw continues
UpdateEnd ==
  /\ proc = "running" /\ uiPc = "update"
  /\ webhookOutput' = webhookOutput \o Head(uiUpdates).text
  /\ lastWrite' = [panel |-> "webhook", locked |-> mu = "ui"]
  /\ mu' = "free"
  /\ uiPc' = "idle"
  /\ uiUpdates' = Tail(uiUpdates)
  /\ IF Head(uiUpdates).waiter = 0
       THEN aggPc' = "resumed" /\ reqs' = reqs
       ELSE /\ reqs' = [reqs EXCEPT ![Head(uiUpdates).waiter].pc = "resumed"]
            /\ aggPc' = aggPc
  /\ UNCHANGED <<startupVars, chanClosed, api, callUser, mainPc, proc, uiShown, serverPc, webhookChan,
                 updates, received, appended, window, lastTick, uiCur, output,
                 inputVars, keys, lastKey, nextReq>>

UILoop == UpdateBegin \/ UpdateEnd

\* ---------------------------------------------------- menu handlers
Emails == {"organiser", "room"}
InputTexts == {"", "ev1"}
\* the menu items selected in the runs that follow the input field
InputItems == {<<"DeleteEvent", e>> : e \in Emails} \cup {<<"Help", "">>}

\* the items of a.menu that run a handler under a.mu, with the email the
\* closure passes (setupUI); "" for the handlers that take none
MenuItems ==
  {<<h, "">> : h \in {"Env", "AccessToken", "ListUsers", "ListSubscriptions",
                      "ListRooms", "Help"}}
  \cup {<<h, e>> : h \in {"ListRoomBookings", "CreateSubscription",
                          "DeleteEvent", "CreateEvent"}, e \in Emails}

\* how the body of a handler can end: "ok", "err" (the call returned an
\* error), "panic" (log.Panicf, or a nil field of the response dereferenced),
\* "fatal" (log.Fatal in GetNotificationUrl)
Outcomes(h) ==
  CASE h \in {"Help", "DeleteEvent", "Input"} -> {"ok"}
    [] h = "Env" -> {"ok", "err"}
    [] h \in {"AccessToken", "ListUsers"} -> {"ok", "panic"}
    [] h = "CreateSubscription" ->
         IF "ENDPOINT" \in env THEN {"ok", "err", "panic"} ELSE {"fatal"}
    [] OTHER -> {"ok", "err", "panic"}

\* the handlers that call the Graph API; "DeleteCall" is the done func
\* installed by handleDeleteEvent
GraphOps == {"AccessToken", "ListUsers", "ListSubscriptions", "ListRooms",
             "ListRoomBookings", "CreateSubscription", "CreateEvent",
             "DeleteCall", "DeleteSubscription"}

\* CreateEventDeadline putting the 30 seconds on every context
CreateEventDeadlineAlways30(c) == 30

\* GraphHelper.CreateEvent: "Add timeout if not set",
\* context.WithTimeout(ctx, 30*time.Second)
CreateEventDeadline(c) == IF c = NoDeadline THEN 30 ELSE c

\* the Graph helper functions that hand the context of their caller to the
\* SDK; the others make their own context.Background()
PassContext == {"ListSubscriptions", "CreateSubscription", "DeleteCall"}

\* the deadline of the context the Graph request of op is made with.  Only
\* CreateEvent wraps the context it is given; the helper of the older
\* revision takes no context and makes context.Background() for every request.
CallDeadline(op) ==
  IF build = "legacy" THEN Background
  ELSE IF op = "CreateEvent" THEN CreateEventDeadline(ctx)
  ELSE IF op \in PassContext THEN ctx
  ELSE Background

\* the request a handler has issued once its header is printed; none for the
\* handlers without a Graph call, and none when CreateRoomSubscription stops
\* at the empty ENDPOINT
IssueCall(h) ==
  IF h \in GraphOps /\ ~(h = "CreateSubscription" /\ "ENDPOINT" \notin env)
    THEN [op |-> h, n |-> 1, deadline |-> CallDeadline(h), result |-> "pending"]
    ELSE NoCall

\* handleCreateEvent(email): the first email it hands to CreateEvent is
\* a.organiserEmail, whatever email is, and CreateEvent posts the event to
\* the events of that user
CreateEventUser(email) == "organiser"

\* the user id the Graph request of handler h is made for, email being the
\* email of the menu item; "" when the request names no user
CallUser(h, email) ==
  IF IssueCall(h) = NoCall THEN ""
  ELSE CASE h = "CreateEvent" -> CreateEventUser(email)
         [] h \in {"ListRoomBookings", "CreateSubscription"} -> email
         [] OTHER -> ""

\* the results of the Graph call after which handler h ends with o: an error
\* is a log.Panicf in ListUsers and DisplayAccessTokenA and an error line
\* elsewhere; the other panics are nil fields of a response that arrived
CallResults(h, o) ==
  CASE h \notin GraphOps \/ o = "fatal" -> {"none"}
    [] o = "err" -> {"err"}
    [] o = "panic" /\ h = "AccessToken" -> {"err"}
    [] o = "panic" /\ h = "ListUsers" -> {"ok", "err"}
    [] OTHER -> {"ok"}

\* the first line a handler prints after a.output.Clear()
Header(h, arg) == <<h, arg, "...\n">>
\* what the body prints for an outcome
BodyText(h, o) ==
  CASE o = "err" -> <<"error: ", h, "\n">>
    [] o = "ok" /\ h \notin {"DeleteEvent", "Input"} -> <<"result: ", h, "\n">>
    [] OTHER -> <<>>

\* BeginHandler without a.output.Clear()
BeginHandlerNoClear(h, arg) ==
  /\ mu = "free"
  /\ mu' = "ui"
  /\ output' = output \o Header(h, arg)
  /\ lastWrite' = [panel |-> "output", locked |-> mu' = "ui"]
  /\ uiPc' = "handler"
  /\ uiCur' = [name |-> h, arg |-> arg]
  /\ api' = IssueCall(h)
  /\ callUser' = CallUser(h, arg)
  /\ keys' = keys + 1
  /\ lastKey' = IF h = "Input" THEN [key |-> "enter", text |-> arg]
                ELSE [key |-> "item", text |-> ""]

\* a.mu.Lock(); defer a.mu.Unlock(); a.output.Clear(); fmt.Fprintf(a.output, ...)
BeginHandler(h, arg) ==
  /\ mu = "free"
  /\ mu' = "ui"
  /\ output' = Header(h, arg)
  /\ lastWrite' = [panel |-> "output", locked |-> mu' = "ui"]
  /\ uiPc' = "handler"
  /\ uiCur' = [name |-> h, arg |-> arg]
  /\ api' = IssueCall(h)
  /\ callUser' = CallUser(h, arg)
  /\ keys' = keys + 1
  /\ lastKey' = IF h = "Input" THEN [key |-> "enter", text |-> arg]
                ELSE [key |-> "item", text |-> ""]

\* one of the items I of a.menu is selected: its handler starts
MenuSelectFrom(I) ==
  /\ proc = "running" /\ uiPc = "idle" /\ focus = "menu"
  /\ keys < keyLimit
  /\ \E it \in I : BeginHandler(it[1], it[2])
  /\ UNCHANGED <<startupVars, chanClosed, mainPc, proc, uiShown, serverPc, webhookChan,
                 aggVars, uiUpdates, webhookOutput, inputVars, reqVars>>

\* a menu item with a handler is selected
MenuSelect == MenuSelectFrom(MenuItems)

\* Enter in the input field with the default done func: handleInput
InputEnter ==
  /\ proc = "running" /\ uiPc = "idle" /\ focus = "input"
  /\ inputDone = "default"
  /\ keys < keyLimit
  /\ \E t \in InputTexts : BeginHandler("Input", t) /\ inputText' = t
  /\ UNCHANGED <<startupVars, chanClosed, mainPc, proc, uiShown, serverPc, webhookChan,
                 aggVars, uiUpdates, webhookOutput, inputDone, deleteEmail,
                 focus, reqVars>>

\* HandlerReturn without the deferred unlock
HandlerReturnKeepsLock(o) ==
  /\ o \in {"ok", "err"}
  /\ output' = output \o BodyText(uiCur.name, o)
  /\ lastWrite' = IF BodyText(uiCur.name, o) = <<>> THEN lastWrite
                  ELSE [panel |-> "output", locked |-> mu = "ui"]
  /\ mu' = mu
  /\ uiPc' = "idle"
  /\ proc' = proc
  /\ IF uiCur.name = "DeleteEvent"
       THEN /\ inputDone' = "delete" /\ deleteEmail' = uiCur.arg
            /\ focus' = "input" /\ inputText' = inputText
       ELSE IF uiCur.name = "Input"
         THEN /\ focus' = "menu" /\ inputText' = ""
              /\ UNCHANGED <<inputDone, deleteEmail>>
         ELSE UNCHANGED inputVars

\* the handler returns: the deferred a.mu.Unlock() runs
HandlerReturn(o) ==
  /\ o \in {"ok", "err"}
  /\ output' = output \o BodyText(uiCur.name, o)
  /\ lastWrite' = IF BodyText(uiCur.name, o) = <<>> THEN lastWrite
                  ELSE [panel |-> "output", locked |-> mu = "ui"]
  /\ mu' = "free"
  /\ uiPc' = "idle"
  /\ proc' = proc
  /\ IF uiCur.name = "DeleteEvent"
       THEN /\ inputDone' = "delete" /\ deleteEmail' = uiCur.arg
            /\ focus' = "input" /\ inputText' = inputText
       ELSE IF uiCur.name = "Input"
         THEN /\ focus' = "menu" /\ inputText' = ""
              /\ UNCHANGED <<inputDone, deleteEmail>>
         ELSE UNCHANGED inputVars

\* HandlerPanic with the unlock not deferred: the panic skips it
HandlerPanicKeepsLock(o) ==
  /\ o = "panic"
  /\ uiPc' = "crashed"
  /\ proc' = "panicked"
  /\ UNCHANGED <<mu, output, lastWrite, inputVars>>

\* the handler panics: the deferred a.mu.Unlock() runs, the panic leaves
\* Run() and ends the process
HandlerPanic(o) ==
  /\ o = "panic"
  /\ mu' = "free"
  /\ uiPc' = "crashed"
  /\ proc' = "panicked"
  /\ UNCHANGED <<output, lastWrite, inputVars>>

\* log.Fatal inside the handler: os.Exit, no deferred function runs
HandlerFatal(o) ==
  /\ o = "fatal"
  /\ proc' = "exited"
  /\ UNCHANGED <<mu, uiPc, output, lastWrite, inputVars>>

HandlerEnd ==
  /\ proc = "running" /\ uiPc = "handler"
  /\ \E o \in Outcomes(uiCur.name) :
       /\ HandlerReturn(o) \/ HandlerPanic(o) \/ HandlerFatal(o)
       /\ \E r \in CallResults(uiCur.name, o) : api' = [api EXCEPT !.result = r]
  /\ callUser' = callUser
  /\ UNCHANGED <<startupVars, chanClosed, mainPc, uiShown, serverPc, webhookChan, aggVars,
                 uiUpdates, uiCur, webhookOutput, keys, lastKey, reqVars>>

\* menu item "Enter Text": a.app.SetFocus(a.inputField)
MenuEnterText ==
  /\ proc = "running" /\ uiPc = "idle" /\ focus = "menu"
  /\ keys < keyLimit
  /\ focus' = "input"
  /\ keys' = keys + 1
  /\ lastKey' = [key |-> "item", text |-> ""]
  /\ UNCHANGED <<startupVars, chanClosed, api, callUser, mainPc, proc, uiShown, serverPc, webhookChan,
                 aggVars, uiUpdates, uiPc, uiCur, mu, panelVars, inputDone,
                 deleteEmail, inputText, reqVars>>

\* menu item "Quit": a.app.Stop(), Run() returns
MenuQuit ==
  /\ proc = "running" /\ uiPc = "idle" /\ focus = "menu"
  /\ uiPc' = "stopped"
  /\ UNCHANGED <<startupVars, chanClosed, api, callUser, mainPc, proc, uiShown, serverPc, webhookChan,
                 aggVars, uiUpdates, uiCur, mu, panelVars, inputVars, keys, lastKey,
                 reqVars>>

\* the input capture of a.layout: Esc toggles between menu and output
EscKey ==
  /\ proc = "running" /\ uiPc = "idle"
  /\ keys < keyLimit
  /\ focus' = IF focus = "menu" THEN "output" ELSE "menu"
  /\ keys' = keys + 1
  /\ lastKey' = [key |-> "esc", text |-> ""]
  /\ UNCHANGED <<startupVars, chanClosed, api, callUser, mainPc, proc, uiShown, serverPc, webhookChan,
                 aggVars, uiUpdates, uiPc, uiCur, mu, panelVars, inputDone,
                 deleteEmail, inputText, reqVars>>

\* DeleteEnterEmpty putting the default done func back and leaving the field
DeleteEnterEmptyResets ==
  /\ proc = "running" /\ uiPc = "idle" /\ focus = "input"
  /\ inputDone = "delete"
  /\ keys < keyLimit
  /\ output' = output \o <<"[red]Error: Event ID cannot be empty[white]\n">>
  /\ lastWrite' = [panel |-> "output", locked |-> mu = "ui"]
  /\ keys' = keys + 1
  /\ lastKey' = [key |-> "enter", text |-> ""]
  /\ inputText' = ""
  /\ inputDone' = "default"
  /\ focus' = "menu"
  /\ UNCHANGED <<startupVars, chanClosed, api, callUser, mainPc, proc, uiShown,
                 serverPc, webhookChan, aggVars, uiUpdates, uiPc, uiCur, mu,
                 webhookOutput, deleteEmail, reqVars>>

\* the done func installed by handleDeleteEvent, Enter with an empty id:
\* it prints the error and returns; a.mu is not taken
DeleteEnterEmpty ==
  /\ proc = "running" /\ uiPc = "idle" /\ focus = "input"
  /\ inputDone = "delete"
  /\ keys < keyLimit
  /\ output' = output \o <<"[red]Error: Event ID cannot be empty[white]\n">>
  /\ lastWrite' = [panel |-> "output", locked |-> mu = "ui"]
  /\ keys' = keys + 1
  /\ lastKey' = [key |-> "enter", text |-> ""]
  /\ inputText' = ""
  /\ UNCHANGED <<startupVars, chanClosed, api, callUser, mainPc, proc, uiShown, serverPc, webhookChan,
                 aggVars, uiUpdates, uiPc, uiCur, mu, webhookOutput, inputDone,
                 deleteEmail, focus, reqVars>>

\* the same done func, Enter with an id: it prints and calls DeleteEvent
DeleteEnterBegin ==
  /\ proc = "running" /\ uiPc = "idle" /\ focus = "input"
  /\ inputDone = "delete"
  /\ keys < keyLimit
  /\ \E t \in InputTexts \ {""} :
       /\ output' = output \o <<"Attempting to deleting event ", t, deleteEmail, "\n">>
       /\ uiCur' = [name |-> "DeleteCall", arg |-> t]
       /\ inputText' = t
       /\ lastKey' = [key |-> "enter", text |-> t]
  /\ api' = IssueCall("DeleteCall")
  /\ callUser' = deleteEmail
  /\ lastWrite' = [panel |-> "output", locked |-> mu = "ui"]
  /\ uiPc' = "deleting"
  /\ keys' = keys + 1
  /\ UNCHANGED <<startupVars, chanClosed, mainPc, proc, uiShown, serverPc, webhookChan,
                 aggVars, uiUpdates, mu, webhookOutput, inputDone, deleteEmail,
                 focus, reqVars>>

\* DeleteEnterEnd calling DeleteEvent again after an error
DeleteEnterEndRetries ==
  /\ proc = "running" /\ uiPc = "deleting"
  /\ \E o \in {"ok", "err"} :
       IF o = "err" /\ api.n < 2
         THEN /\ api' = [api EXCEPT !.n = @ + 1, !.result = "pending"]
              /\ UNCHANGED <<output, lastWrite, inputDone, focus, uiPc,
                             inputText>>
         ELSE /\ UNCHANGED <<output, lastWrite>>
              /\ api' = [api EXCEPT !.result = o]
              /\ inputText' = ""
              /\ inputDone' = "default"
              /\ focus' = "menu"
              /\ uiPc' = "idle"
  /\ UNCHANGED <<startupVars, chanClosed, mainPc, proc, uiShown, serverPc,
                 webhookChan, aggVars, uiUpdates, uiCur, mu, webhookOutput,
                 deleteEmail, keys, lastKey, callUser, reqVars>>

\* DeleteEnterEnd leaving the delete done func installed
DeleteEnterEndStaysArmed ==
  /\ proc = "running" /\ uiPc = "deleting"
  /\ \E o \in {"ok", "err"} :
       IF o = "err"
         THEN /\ output' = output \o <<"[red]failed to delete event:", uiCur.arg,
                                       deleteEmail, "\n",
                                       "[red]Error deleting event: ", "\n">>
              /\ lastWrite' = [panel |-> "output", locked |-> mu = "ui"]
              /\ api' = [api EXCEPT !.result = "err"]
         ELSE /\ UNCHANGED <<output, lastWrite>>
              /\ api' = [api EXCEPT !.result = "ok"]
  /\ inputText' = ""
  /\ inputDone' = inputDone
  /\ focus' = "input"
  /\ uiPc' = "idle"
  /\ UNCHANGED <<startupVars, chanClosed, mainPc, proc, uiShown, serverPc,
                 webhookChan, aggVars, uiUpdates, uiCur, mu, webhookOutput,
                 deleteEmail, keys, lastKey, callUser, reqVars>>

\* DeleteEvent has returned: on an error two lines are printed; the field is
\* cleared, the default done func is put back and the menu gets the focus
DeleteEnterEnd ==
  /\ proc = "running" /\ uiPc = "deleting"
  /\ \E o \in {"ok", "err"} :
       IF o = "err"
         THEN /\ output' = output \o <<"[red]failed to delete event:", uiCur.arg,
                                       deleteEmail, "\n",
                                       "[red]Error deleting event: ", "\n">>
              /\ lastWrite' = [panel |-> "output", locked |-> mu = "ui"]
              /\ api' = [api EXCEPT !.result = "err"]
         ELSE /\ UNCHANGED <<output, lastWrite>>
              /\ api' = [api EXCEPT !.result = "ok"]
  /\ inputText' = ""
  /\ inputDone' = "default"
  /\ focus' = "menu"
  /\ uiPc' = "idle"
  /\ UNCHANGED <<startupVars, chanClosed, mainPc, proc, uiShown, serverPc, webhookChan,
                 aggVars, uiUpdates, uiCur, mu, webhookOutput, deleteEmail,
                 keys, lastKey, callUser, reqVars>>

\* MainReturn with a Cleanup that closes the notification channel
MainReturnClosesChan ==
  /\ proc = "running" /\ mainPc = "loop" /\ uiPc = "stopped"
  /\ mainPc' = "done"
  /\ proc' = "exited"
  /\ chanClosed' = TRUE
  /\ UNCHANGED <<startupVars, api, callUser, uiShown, serverPc, webhookChan, aggVars,
                 uiUpdates, uiPc, uiCur, mu, panelVars, inputVars, keys, lastKey, reqVars>>

\* main returns once Run() has returned: the deferred app.Cleanup() stops
\* a.timeTimer, which is never set, and the process ends
MainReturn ==
  /\ proc = "running" /\ mainPc = "loop" /\ uiPc = "stopped"
  /\ mainPc' = "done"
  /\ proc' = "exited"
  /\ UNCHANGED <<startupVars, chanClosed, api, callUser, uiShown, serverPc, webhookChan, aggVars,
                 uiUpdates, uiPc, uiCur, mu, panelVars, inputVars, keys, lastKey, reqVars>>

Menu ==
  \/ MenuSelect \/ InputEnter \/ HandlerEnd \/ MenuEnterText \/ MenuQuit
  \/ EscKey \/ DeleteEnterEmpty \/ DeleteEnterBegin \/ DeleteEnterEnd
  \/ MainReturn

\* ---------------------------------------------------- event printing
\* ListRoom7DaysBookings prints every event of the calendar view and
\* CreateEvent prints the event the service returned.  The SDK getters
\* return pointers; a field the response leaves out is a nil pointer, and
\* the value of a pointer is read with *p, which panics on nil.

Nil == "nil"
Flags == {Nil, "true", "false"}

\* an event of a response: whether its start and end parse as local time,
\* and its three optional booleans
Events == [timeOk : BOOLEAN, online : Flags, organizer : Flags,
           cancelled : Flags]

RenderFns == {"ListRoom7DaysBookings", "CreateEvent"}

Line(t, v) == [text |-> t, val |-> v]
Panic(field) == [text |-> "panic", val |-> field]

\* fmt.Fprintf(w, label + "%t", *p): the arguments are evaluated before
\* anything is written
DerefLine(label, p, field) == IF p = Nil THEN Panic(field) ELSE Line(label, p)

\* if p == nil || *p == false { Fprintf("isOrganiser: [red]%t", *p) }
\* else { Fprintf("isOrganiser: [green]%t", *p) }
IsOrganiserLine(p) ==
  IF p = Nil \/ p = "false"
    THEN DerefLine("isOrganiser: [red]", p, "isOrganizer")
    ELSE DerefLine("isOrganiser: [green]", p, "isOrganizer")

\* the lines after the local times
FlagLines(e) ==
  << DerefLine("OnlineMeeting: ", e.online, "isOnlineMeeting"),
     IsOrganiserLine(e.organizer),
     DerefLine("isCancelled: ", e.cancelled, "isCancelled"),
     Line("Organiser: ", "") >>

\* the statements one event goes through, in order.  In the loop of
\* ListRoom7DaysBookings a time that does not parse ends the event with
\* continue; CreateEvent prints the failure and goes on.
EventLines(fn, e) ==
  LET head == << Line("Event Id : ", "") >>
  IN  IF e.timeOk
        THEN head \o << Line("Local Start: ", ""), Line("Local End: ", "") >>
                  \o FlagLines(e)
        ELSE IF fn = "ListRoom7DaysBookings"
               THEN head \o << Line("Failed to convert start time", "") >>
               ELSE head \o << Line("Failed to convert start time", ""),
                               Line("Failed to convert end time", "") >>
                         \o FlagLines(e)

\* the position of the first statement that panics, 0 when none does
FirstPanic(ls) ==
  IF \E j \in 1..Len(ls) : ls[j].text = "panic"
    THEN CHOOSE j \in 1..Len(ls) :
           /\ ls[j].text = "panic"
           /\ \A k \in 1..(j - 1) : ls[k].text # "panic"
    ELSE 0

\* what reaches the panel: the lines before the first panic
Written(ls) == IF FirstPanic(ls) = 0 THEN ls ELSE SubSeq(ls, 1, FirstPanic(ls) - 1)

\* the field whose nil pointer was read, "" when none was
Cause(ls) == IF FirstPanic(ls) = 0 THEN "" ELSE ls[FirstPanic(ls)].val

\* one event is printed, or the goroutine panics in the middle of it
RenderEvent ==
  /\ render.pc = "loop"
  /\ render.i <= Len(render.events)
  /\ LET ls == EventLines(render.fn, render.events[render.i])
     IN  render' = [render EXCEPT
                      !.out = @ \o Written(ls),
                      !.cause = Cause(ls),
                      !.pc = IF Cause(ls) = "" THEN "loop" ELSE "panicked",
                      !.i = IF Cause(ls) = "" THEN @ + 1 ELSE @]
  /\ UNCHANGED <<dashboardVars, cli, cache>>

\* the function returns after the last event
RenderReturn ==
  /\ render.pc = "loop"
  /\ render.i > Len(render.events)
  /\ render' = [render EXCEPT !.pc = "done"]
  /\ UNCHANGED <<dashboardVars, cli, cache>>

\* ---------------------------------------------------- text menu
\* msgraph-cli.go: main prints the menu, reads a choice with
\* fmt.Scanf("%d", &choice), runs the operation of the choice and repeats
\* until the choice is 0.  A goroutine started before the loop serves
\* /webhook.

\* the listed options
CliOptions == 0..11

\* what the user can type at the prompt: a number, or something %d does
\* not read (letters, an empty line, end of input)
Unreadable == "unreadable"
CliInputs == {ToString(n) : n \in -1..12} \cup {Unreadable}

\* fmt.Scanf("%d", &choice); if err != nil { choice = -1 }
ScanChoice(in) ==
  IF in = Unreadable THEN -1
  ELSE CHOOSE n \in -1..12 : ToString(n) = in

\* how the operation of a choice can end: it returns (with or without an
\* error line), or it ends the process.  displayAccessToken, listUsers and
\* listSubscriptions call log.Panicf on an API error;
\* CreateRoomSubscription calls log.Fatal when ENDPOINT is not set.
CliOutcomes(c) ==
  CASE c \in {1, 2, 3} -> {"ok", "panic"}
    [] c = 7 -> {"ok", "err", "fatal"}
    [] OTHER -> {"ok", "err"}

CliRunning == cli.pc \in {"prompt", "switch", "op", "check"}

\* the menu is printed and the choice is read
CliRead ==
  /\ cli.pc = "prompt"
  /\ cli.prompts < MaxPrompts
  /\ \E in \in CliInputs :
       cli' = [cli EXCEPT !.pc = "switch", !.input = in,
                          !.choice = ScanChoice(in), !.prompts = @ + 1]
  /\ UNCHANGED <<dashboardVars, render, cache>>

\* switch choice
CliSwitch ==
  /\ cli.pc = "switch"
  /\ cli' = IF cli.choice = 0
              THEN [cli EXCEPT !.pc = "check"]
            ELSE IF cli.choice \in CliOptions
              THEN [cli EXCEPT !.pc = "op", !.ran = Append(@, cli.choice)]
            ELSE [cli EXCEPT !.pc = "check", !.invalid = @ + 1]
  /\ UNCHANGED <<dashboardVars, render, cache>>

\* the operation of the choice ends
CliOpEnd ==
  /\ cli.pc = "op"
  /\ \E o \in CliOutcomes(cli.choice) :
       cli' = [cli EXCEPT !.pc = CASE o = "panic" -> "panicked"
                                   [] o = "fatal" -> "exited"
                                   [] OTHER -> "check"]
  /\ UNCHANGED <<dashboardVars, render, cache>>

\* if choice == 0 { break }
CliCheck ==
  /\ cli.pc = "check"
  /\ cli' = [cli EXCEPT !.pc = IF cli.choice = 0 THEN "done" ELSE "prompt"]
  /\ UNCHANGED <<dashboardVars, render, cache>>

\* the server goroutine: GetPort and http.ListenAndServe
CliServerListen ==
  /\ cli.server = "starting"
  /\ CliRunning
  /\ cli' = [cli EXCEPT !.server = "listening"]
  /\ UNCHANGED <<dashboardVars, render, cache>>

\* PORT is not set, or the port cannot be bound: log.Fatal ends the process
CliServerFatal ==
  /\ cli.server = "starting"
  /\ CliRunning
  /\ cli' = [cli EXCEPT !.server = "failed", !.pc = "exited"]
  /\ UNCHANGED <<dashboardVars, render, cache>>

\* ---------------------------------------------------- room cache
\* GraphHelper.cache: the map rooms, lastUpdate and the sync.RWMutex mu.
\* NewGraphHelper leaves the map nil (reading a nil map finds nothing).
\* GetRoom is the only function that touches the cache; the goroutines of
\* Callers call it with any email, one call after the other.

Callers == 1..MaxCallers

\* a goroutine calls GetRoom(email)
GetRoomCall(c) ==
  /\ cache.pc[c] = "idle"
  /\ cache.calls < MaxCalls
  /\ \E email \in Emails :
       cache' = [cache EXCEPT !.pc[c] = "rlock", !.arg[c] = email,
                              !.ret[c] = "none", !.calls = @ + 1]
  /\ UNCHANGED <<dashboardVars, render, cli>>

\* g.cache.mu.RLock(): waits while a writer holds the mutex
GetRoomRLock(c) ==
  /\ cache.pc[c] = "rlock"
  /\ cache.writer = 0
  /\ cache' = [cache EXCEPT !.pc[c] = "lookup", !.readers = @ \cup {c}]
  /\ UNCHANGED <<dashboardVars, render, cli>>

\* if room, ok := g.cache.rooms[email]; ok && time.Since(lastUpdate) < 5min
\* { RUnlock; return room, nil }
GetRoomLookup(c) ==
  /\ cache.pc[c] = "lookup"
  /\ \E fresh \in BOOLEAN :
       cache' = IF cache.arg[c] \in cache.rooms /\ fresh
                  THEN [cache EXCEPT !.pc[c] = "idle",
                                     !.readers = @ \ {c},
                                     !.ret[c] = cache.arg[c]]
                  ELSE [cache EXCEPT !.pc[c] = "runlock"]
  /\ UNCHANGED <<dashboardVars, render, cli>>

\* g.cache.mu.RUnlock() on a miss
GetRoomRUnlock(c) ==
  /\ cache.pc[c] = "runlock"
  /\ cache' = [cache EXCEPT !.pc[c] = "lock", !.readers = @ \ {c}]
  /\ UNCHANGED <<dashboardVars, render, cli>>

\* g.cache.mu.Lock(): waits for the readers and the writer to leave
GetRoomLock(c) ==
  /\ cache.pc[c] = "lock"
  /\ cache.writer = 0
  /\ cache.readers = {}
  /\ cache' = [cache EXCEPT !.pc[c] = "fetch", !.writer = c]
  /\ UNCHANGED <<dashboardVars, render, cli>>

\* GetRoomReturn with the fetch that is commented out in the source: the
\* room is stored in the map and returned
GetRoomReturnStores(c) ==
  /\ cache.pc[c] = "fetch"
  /\ cache' = [cache EXCEPT !.pc[c] = "idle", !.writer = 0,
                            !.rooms = @ \cup {cache.arg[c]},
                            !.ret[c] = cache.arg[c]]
  /\ UNCHANGED <<dashboardVars, render, cli>>

\* return nil, nil; the deferred Unlock runs
GetRoomReturn(c) ==
  /\ cache.pc[c] = "fetch"
  /\ cache' = [cache EXCEPT !.pc[c] = "idle", !.writer = 0, !.ret[c] = Nil]
  /\ UNCHANGED <<dashboardVars, render, cli>>

\* ---------------------------------------------------- webhook claims
Reqs == {i \in 1..MaxReq : reqs[i].pc # "none"}
Returned(i) == reqs[i].pc = "done"
Elems(str) == {str[k] : k \in 1..Len(str)}

\* C1: a request whose method is not POST gets status 405, whatever its
\* validationToken and body: its status is never anything else, and it is 405
\* when the handler returns.
C1_NonPostGets405 ==
  \A i \in Reqs :
    reqs[i].method # "POST" =>
      /\ reqs[i].status \in {0, 405}
      /\ Returned(i) => reqs[i].status = 405
C1_Witness ==
  \E i \in Reqs :
    /\ reqs[i].method = "GET" /\ reqs[i].token # NoToken
    /\ Returned(i) /\ reqs[i].status = 405

C3_NotificationEnqueuedOnce ==
  \A i \in Reqs :
    (/\ reqs[i].method = "POST" /\ reqs[i].token = NoToken /\ reqs[i].readOk
     /\ Returned(i)) =>
      /\ Len(reqs[i].sent) = 1
      /\ reqs[i].body \in Elems(reqs[i].sent[1])
      /\ reqs[i].status = 200
      /\ reqs[i].resp = "Notification received"
C3_Witness ==
  \E i \in Reqs :
    /\ reqs[i].method = "POST" /\ reqs[i].token = NoToken /\ reqs[i].readOk
    /\ reqs[i].body = "b2" /\ Returned(i)
    /\ reqs[i].sent = <<FmtReceived("b2")>>

\* the handler tried to read the body and the read failed
ReadFailed(i) ==
  /\ reqs[i].method = "POST" /\ ~reqs[i].readOk
  /\ build = "server" => reqs[i].token = NoToken

\* C4: when reading the body of a POST fails the status is 500 and the body
\* "Notification received" is never sent for that request.
C4_ReadFailureGets500 ==
  \A i \in Reqs :
    ReadFailed(i) =>
      /\ reqs[i].status \in {0, 500}
      /\ reqs[i].resp # "Notification received"
      /\ Returned(i) => reqs[i].status = 500
C4_Witness ==
  \E i \in Reqs : ReadFailed(i) /\ Returned(i) /\ reqs[i].status = 500

\* ---------------------------------------------------- aggregator claims
RECURSIVE InArrivalOrder(_)
\* the strings of w, first to last, with a newline between neighbours
InArrivalOrder(w) ==
  IF Len(w) = 1 THEN w[1]
  ELSE InArrivalOrder(SubSeq(w, 1, Len(w) - 1)) \o <<"\n">> \o w[Len(w)]

QueuedByAggregator == SelectSeq(uiUpdates, LAMBDA u : u.waiter = 0)

\* C5: when N >= 1 strings were received between two consecutive ticks, the
\* second tick makes exactly one append, and its text is those strings joined
\* in the order they arrived.
C5_OneJoinedAppendPerTick ==
  /\ lastTick.window # <<>> =>
       /\ lastTick.appends = 1
       /\ lastTick.text = InArrivalOrder(lastTick.window)
  /\ aggPc = "waiting" =>
       /\ Len(QueuedByAggregator) = 1
       /\ QueuedByAggregator[1].text = lastTick.text
  /\ aggPc # "waiting" => QueuedByAggregator = <<>>
C5_Witness ==
  /\ Len(lastTick.window) = 2
  /\ lastTick.window[1] # lastTick.window[2]
  /\ lastTick.appends = 1
  /\ aggPc = "waiting"

Count(x, q) == Cardinality({k \in 1..Len(q) : q[k] = x})

\* C6: once a tick has handled a batch the batch is empty (between ticks it
\* holds exactly the strings received since the latest tick), and no string
\* is appended more often than it was received.
C6_BatchClearedAppendedOnce ==
  /\ aggPc = "select" => updates = window
  /\ \A x \in Elems(appended) : Count(x, appended) <= Count(x, received)
C6_Witness ==
  /\ Len(appended) = 2
  /\ Len(lastTick.window) = 1
  /\ aggPc = "select"
  /\ updates = <<>>

\* ---------------------------------------------------- mutex claims
\* C7: every write to the output panel and to the webhook panel made after
\* start-up is made while the writer holds a.mu.
C7_PanelWritesHoldMutex == lastWrite.locked

\* C8: a menu handler holds a.mu from before its first write to the output
\* panel until it returns or panics, the queued append holds it while it runs,
\* and whenever neither is executing a.mu is free.
C8_HandlersLockAndRelease ==
  /\ uiPc = "handler" => (mu = "ui" /\ lastWrite = [panel |-> "output", locked |-> TRUE])
  /\ uiPc = "update" => mu = "ui"
  /\ uiPc \notin {"handler", "update"} => mu = "free"
C8_Witness ==
  /\ uiPc = "crashed" /\ proc = "panicked"
  /\ uiCur.name = "ListUsers"
  /\ mu = "free"

\* ---------------------------------------------------- independence
Pending(i) == reqs[i].pc \in {"start", "written", "sent", "waiting", "resumed"}
HandlerInFlight == proc = "running" /\ uiPc = "handler"

\* the handler of request i cannot continue before the UI loop runs a queued
\* function: it waits for room in the full channel while the aggregator waits
\* in QueueUpdateDraw, or it waits in QueueUpdateDraw itself
WaitsForUI(i) ==
  \/ /\ build = "server"
     /\ reqs[i].pc \in {"start", "written"}
     /\ reqs[i].pc = "start" => Branch(reqs[i]) # "validate"
     /\ Len(webhookChan) = WebhookChanCap
     /\ aggPc = "waiting"
  \/ build = "legacy" /\ reqs[i].pc = "waiting"

\* C9 as stated: while a menu handler is in flight no POST has to wait for
\* the UI, however many requests arrive.
C9_NoPostWaitsForUI ==
  \A i \in Reqs : HandlerInFlight => ~WaitsForUI(i)

\* C9 amended: WebhookServer.handleWebhook never waits for the UI while the
\* notification channel has room: each of its pending handlers can take its
\* next step, a menu handler in flight or not; a full channel is drained by
\* the aggregator unless the aggregator waits for the UI loop.
C9_PostProceedsWhileChannelHasRoom ==
  build = "server" /\ proc = "running" =>
    /\ \A i \in Reqs :
         (Pending(i) /\ Len(webhookChan) < WebhookChanCap) =>
           ENABLED (WSSend(i) \/ WSReply(i) \/ WSValidateWrite(i) \/ WSValidateLog(i))
    /\ (webhookChan # <<>> /\ aggPc = "select") => ENABLED AggReceive
C9_Witness ==
  /\ build = "server" /\ HandlerInFlight
  /\ aggPc = "waiting"
  /\ Len(webhookChan) < WebhookChanCap
  /\ \E i \in Reqs : reqs[i].pc = "start"
  /\ \E i \in Reqs : Returned(i) /\ reqs[i].status = 200

\* ---------------------------------------------------- start-up claims
\* C10: when a required environment variable is unset the process exits
\* before the event loop starts, so the UI is never shown.
C10_UnsetVariableNeverShowsUI ==
  env # RequiredVars => ~uiShown

\* ---------------------------------------------------- menu claims
\* text holds the tokens of s next to each other
Contains(text, s) ==
  \E k \in 0..(Len(text) - Len(s)) : SubSeq(text, k + 1, k + Len(s)) = s

\* the line printed for a failed call of op
ErrorLine(op) ==
  IF op = "DeleteCall" THEN <<"[red]Error deleting event: ", "\n">>
  ELSE <<"error: ", op, "\n">>

\* C11: when one of the seven variables is unset and the others are set, the
\* process aborts during start-up, so no menu action and no done func of the
\* input field is ever run.
C11_UnsetVariableRunsNoMenuAction ==
  env # RequiredVars => uiPc \notin {"handler", "deleting"}

\* C12: when the Graph call of a menu action has failed, the handler has
\* printed an error line to the output panel and has returned: the UI
\* goroutine has not panicked and the process has not died in the handler.
C12_FailedCallPrintsErrorAndReturns ==
  api.result = "err" =>
    /\ uiPc # "crashed"
    /\ Contains(output, ErrorLine(api.op))

\* C13: one invocation of a menu action issues at most one Graph call, and
\* after the call has returned (with an error or not) the same invocation
\* issues no further call.
C13_OneCallNoRetry ==
  /\ [](api.n <= 1)
  /\ [][keys' = keys =>
         /\ api'.op = api.op /\ api'.n = api.n
         /\ api.result \in {"ok", "err"} => api' = api]_vars
C13_Witness ==
  /\ api = [op |-> "ListRoomBookings", n |-> 1, deadline |-> NoDeadline,
            result |-> "err"]
  /\ uiPc = "idle" /\ proc = "running"
  /\ Contains(output, ErrorLine("ListRoomBookings"))

\* C16: in the revision whose helper takes a context, the request of
\* CreateEvent is made with a deadline of 30 seconds when the context of the
\* caller has none and with the caller's deadline when it has one; every
\* other request of the program, whose callers pass context.Background(), is
\* made without a deadline.
C16_OnlyCreateEventHasDeadline ==
  /\ (build = "server" /\ api.op = "CreateEvent") =>
       api.deadline = IF ctx = NoDeadline THEN 30 ELSE ctx
  /\ (ctx = Background /\ api.op # "CreateEvent") => api.deadline = NoDeadline
  /\ ctx = Background =>
       \A op \in GraphOps \ {"CreateEvent"} : CallDeadline(op) = NoDeadline
C16_Witness ==
  /\ build = "server" /\ ctx = Background
  /\ uiPc = "handler" /\ uiCur.name = "CreateEvent"
  /\ api = [op |-> "CreateEvent", n |-> 1, deadline |-> 30, result |-> "pending"]

\* a Graph request of the UI goroutine is in flight
InFlight == api.result = "pending"
\* the request has returned, its result or its error line is printed and the
\* UI goroutine is back in the event loop
RenderedOrError == api.result \in {"ok", "err"} /\ uiPc \in {"idle", "update", "stopped"}

\* C17: a request is in flight only while the UI goroutine is inside the
\* handler that issued it (so there is never more than one), and every
\* request in flight leads to its result or error line being printed with the
\* UI goroutine idle again, unless the process is ended from outside the
\* handler in the meantime.
C17_ActionRendersOrErrorsThenIdle ==
  /\ [](InFlight => uiPc \in {"handler", "deleting"})
  /\ InFlight ~> (RenderedOrError \/ proc = "exited")

\* ---------------------------------------------------- channel claims
\* NewApp has started processWebhookUpdates
AggregatorStarted == build = "server" /\ mainPc \notin {"load", "init", "newApp"}

\* C14: the notification channel is never closed, and once started the
\* aggregator is always at a position inside its loop (at the select, waiting
\* for its append, or about to clear the batch): it never leaves the loop,
\* also not when main returns and Cleanup runs.
C14_ChannelOpenAggregatorInLoop ==
  /\ ~chanClosed
  /\ aggPc \in {"none", "select", "waiting", "resumed"}
  /\ AggregatorStarted <=> aggPc # "none"
C14_Witness ==
  /\ mainPc = "done" /\ proc = "exited"
  /\ aggPc = "select" /\ Len(received) = 1 /\ updates = <<>>
  /\ ~chanClosed

\* how often x was sent on the channel: by WebhookServer.Start and by the
\* handlers of the requests
SentCount(x) ==
  (IF serverPc = "listening" /\ x = FmtStarting(":port") THEN 1 ELSE 0)
  + Cardinality({i \in 1..MaxReq : reqs[i].sent # <<>> /\ reqs[i].sent[1] = x})
SentStrings ==
  {FmtStarting(":port")} \cup {reqs[i].sent[1] : i \in {j \in 1..MaxReq : reqs[j].sent # <<>>}}

\* the handler of request i is at its send
AtSend(i) ==
  \/ reqs[i].pc = "start" /\ Branch(reqs[i]) # "validate"
  \/ reqs[i].pc = "written"

\* a step that puts one string behind those on the channel
ChanSent ==
  /\ Len(webhookChan) < WebhookChanCap
  /\ Len(webhookChan') = Len(webhookChan) + 1
  /\ SubSeq(webhookChan', 1, Len(webhookChan)) = webhookChan
  /\ received' = received
\* a step in which the aggregator takes the oldest string into its batch
ChanTaken ==
  /\ webhookChan # <<>>
  /\ webhookChan' = Tail(webhookChan)
  /\ received' = Append(received, Head(webhookChan))
  /\ updates' = Append(updates, Head(webhookChan))

\* what a step may do to the channel: a change is a send or the aggregator's
\* receive, and a handler at its send does not move while the channel is full
QueueStep ==
  /\ webhookChan' # webhookChan => (ChanSent \/ ChanTaken)
  /\ received' # received => ChanTaken
  /\ \A i \in 1..MaxReq :
       (build = "server" /\ AtSend(i) /\ Len(webhookChan) = WebhookChanCap)
         => reqs'[i] = reqs[i]

\* C15: the channel never holds more strings than its capacity; only the
\* aggregator takes strings out, in the order they were put in; a handler at
\* its send stays there while the channel is full; and every string sent is
\* on the channel or was received by the aggregator, as often as it was sent.
C15_BoundedQueueOneConsumerNoLoss ==
  /\ [](build = "server" =>
         /\ Len(webhookChan) <= WebhookChanCap
         /\ \A i \in 1..MaxReq : Len(reqs[i].sent) <= 1
         /\ \A x \in SentStrings \cup Elems(received \o webhookChan) :
              Count(x, received \o webhookChan) = SentCount(x)
         /\ Len(webhookChan) = WebhookChanCap =>
              \A i \in 1..MaxReq :
                ~ENABLED (WSSend(i) \/ WSValidateLog(i)))
  /\ [][QueueStep]_vars
C15_Witness ==
  /\ build = "server"
  /\ Len(webhookChan) = WebhookChanCap
  /\ \E i \in Reqs : AtSend(i) /\ Branch(reqs[i]) = "notify"
  /\ \E j \in Reqs : Returned(j) /\ reqs[j].sent[1] \in Elems(webhookChan)
  /\ aggPc = "waiting" /\ Len(received) = 1

\* ---------------------------------------------------- display claims
RECURSIVE Split(_, _, _)
\* the strings of a panel text: every string ends with a newline token, and a
\* newline token that starts a string is the separator strings.Join put in.
\* cur holds the tokens of the string being read, acc the strings read.
Split(text, cur, acc) ==
  IF text = <<>> THEN (IF cur = <<>> THEN acc ELSE Append(acc, cur))
  ELSE IF Head(text) \in {"\n", "...\n"}
    THEN IF cur = <<>> THEN Split(Tail(text), <<>>, acc)
         ELSE Split(Tail(text), <<>>, Append(acc, Append(cur, Head(text))))
    ELSE Split(Tail(text), Append(cur, Head(text)), acc)

\* the notification strings that appear in the webhook panel, top to bottom
StringsShown == Split(webhookOutput, <<>>, <<>>)
\* the number of strings put on the channel so far
Enqueued == Len(received) + Len(webhookChan)

IsPrefix(p, q) == Len(p) <= Len(q) /\ SubSeq(q, 1, Len(p)) = p

\* the n-th string put on the channel is the n-th string of the panel
ShownAt(n) ==
  IF Len(StringsShown) >= n /\ Enqueued >= n
    THEN StringsShown[n] = (received \o webhookChan)[n]
    ELSE FALSE

\* C18: with the ticks firing, the UI loop started and running the queued
\* updates, the n-th string put on the notification channel is eventually the
\* n-th string of the webhook panel, for as long as the process runs.
C18_EnqueuedEventuallyShown ==
  \A n \in 1..(MaxReq + 1) :
    (build = "server" /\ Enqueued >= n) ~>
      (ShownAt(n) \/ proc # "running")
C18_Witness ==
  /\ build = "server" /\ proc = "running"
  /\ Enqueued = MaxReq + 1
  /\ StringsShown = received
  /\ \E i \in Reqs : reqs[i].sent = <<FmtReceived("b1")>>
                       /\ StringsShown[Len(StringsShown)] = FmtReceived("b1")

\* C19: in the revision with the aggregator the strings in the webhook panel
\* are, in their order, a prefix of the strings in the order the aggregator
\* received them, across the appends of different ticks too.
C19_ShownIsPrefixOfReceived ==
  build = "server" => IsPrefix(StringsShown, received)
C19_Witness ==
  /\ build = "server"
  /\ Len(lastTick.window) = 1 /\ aggPc = "resumed"
  /\ Len(received) = 3 /\ Len(StringsShown) = 3
  /\ received[2] # received[3]
  /\ Len(updates) = 1 /\ updates[1] = StringsShown[3]

\* the string the notification branch logs for body b
NotificationString(b) ==
  IF build = "server" THEN FmtReceived(b) ELSE FmtLegacyNotification(b)
\* how often s stands in text
Occurrences(text, s) ==
  Cardinality({k \in 0..(Len(text) - Len(s)) : SubSeq(text, k + 1, k + Len(s)) = s})
\* the requests that have been answered 200 "Notification received" for body b
Notified(b) ==
  {i \in Reqs : /\ reqs[i].status = 200 /\ reqs[i].resp = "Notification received"
                /\ reqs[i].body = b}
\* how often s is on the channel, in the batch not yet shown, or in the panel
Held(s) ==
  Count(s, webhookChan)
  + (IF aggPc \in {"select", "waiting"} THEN Count(s, updates) ELSE 0)
  + Occurrences(webhookOutput, s)

\* C20: every request that has been answered 200 "Notification received" has
\* its notification string on the channel, in the aggregator's batch or in the
\* webhook panel already: for every body there are at least as many such
\* strings as answered requests.
C20_EnqueuedBeforeReply ==
  \A b \in Bodies : Cardinality(Notified(b)) <= Held(NotificationString(b))
C20_Witness ==
  /\ build = "server"
  /\ \E i \in Reqs :
       /\ Returned(i) /\ reqs[i].resp = "Notification received"
       /\ webhookChan = <<FmtReceived(reqs[i].body)>>
       /\ FmtReceived(reqs[i].body) \notin Elems(received)

\* ---------------------------------------------------- request log claims
\* s is a string the notification branch of a handler logs
IsNotificationString(s) ==
  \/ "][white] Received notification: " \in Elems(s)
  \/ "[yellow]Webhook notification:[white] " \in Elems(s)

\* C21: a POST with a non-empty validationToken T queues exactly one log
\* string, which holds T, after T has been written to the response with
\* status 200, and no notification string is queued for that request.
C21_ValidationLoggedOnceAfterEcho ==
  \A i \in Reqs :
    (reqs[i].method = "POST" /\ reqs[i].token # NoToken) =>
      /\ reqs[i].sent # <<>> =>
           (reqs[i].status = 200 /\ reqs[i].resp = reqs[i].token)
      /\ \A k \in 1..Len(reqs[i].sent) :
           /\ reqs[i].token \in Elems(reqs[i].sent[k])
           /\ ~IsNotificationString(reqs[i].sent[k])
      /\ Len(reqs[i].sent) <= 1
      /\ Returned(i) => Len(reqs[i].sent) = 1

\* request i is one that WebhookServer.handleWebhook rejects for its method
Rejected(i) == build = "server" /\ reqs[i].pc # "none" /\ reqs[i].method # "POST"

\* the step in which a rejected request logs: its string goes to the end of
\* the channel, and the response is still unwritten
RejectStep ==
  \A i \in 1..MaxReq :
    (Rejected(i) /\ reqs'[i].sent # reqs[i].sent) =>
      /\ reqs[i].sent = <<>> /\ reqs[i].status = 0 /\ reqs'[i].status = 0
      /\ reqs'[i].sent = <<FmtMethodNotAllowed(reqs[i].method)>>
      /\ webhookChan' = Append(webhookChan, FmtMethodNotAllowed(reqs[i].method))

\* C22: WebhookServer.handleWebhook puts exactly one "Method not allowed"
\* string naming the method on the notification channel before it answers a
\* non-POST request with 405: the request changes the channel, and while the
\* channel is full its handler can neither log nor answer.
C22_RejectedRequestLoggedBefore405 ==
  /\ [](\A i \in 1..MaxReq :
          Rejected(i) =>
            /\ Len(reqs[i].sent) <= 1
            /\ reqs[i].status # 0 =>
                 /\ reqs[i].status = 405
                 /\ reqs[i].sent = <<FmtMethodNotAllowed(reqs[i].method)>>
            /\ (reqs[i].pc = "start" /\ Len(webhookChan) = WebhookChanCap) =>
                 ~ENABLED (WSSend(i) \/ WSReply(i)))
  /\ [][RejectStep]_vars
C22_Witness ==
  /\ \E i \in Reqs :
       /\ Rejected(i) /\ Returned(i) /\ reqs[i].status = 405
       /\ reqs[i].sent = <<FmtMethodNotAllowed("GET")>>
       /\ webhookChan = reqs[i].sent
  /\ \E j \in Reqs : Rejected(j) /\ reqs[j].pc = "start"
  /\ Len(webhookChan) = WebhookChanCap

\* ---------------------------------------------------- deadlock claims
\* the steps main takes by itself before the event loop runs
MainSteps ==
  \/ LoadEnv \/ InitGraph \/ NewApp \/ GetOrganiserEmail \/ GetRoomEmail
  \/ SpawnServer \/ RunUI

\* the UI goroutine can take its next step, or waits for a key only
UICanMove ==
  /\ uiPc = "off" => ENABLED MainSteps
  /\ uiPc = "idle" /\ uiUpdates # <<>> => ENABLED UpdateBegin
  /\ uiPc = "handler" => ENABLED HandlerEnd
  /\ uiPc = "update" => ENABLED UpdateEnd
  /\ uiPc = "deleting" => ENABLED DeleteEnterEnd
  /\ uiPc = "stopped" => ENABLED MainReturn

\* the aggregator can take its next step, or it waits in QueueUpdateDraw for
\* a function that is in the queue of the UI goroutine
AggCanMove ==
  /\ aggPc = "select" /\ webhookChan # <<>> => ENABLED AggReceive
  /\ aggPc = "resumed" => ENABLED AggClear
  /\ aggPc = "waiting" => \E k \in 1..Len(uiUpdates) : uiUpdates[k].waiter = 0

\* the handler of request i can take its next step, or it waits for the
\* aggregator to make room on the channel, or for its queued function
HandlerCanMove(i) ==
  IF build = "server"
    THEN IF AtSend(i) /\ Len(webhookChan) = WebhookChanCap
           THEN aggPc # "none"
           ELSE ENABLED (WSSend(i) \/ WSReply(i) \/ WSValidateWrite(i)
                         \/ WSValidateLog(i))
    ELSE IF reqs[i].pc = "waiting"
           THEN \E k \in 1..Len(uiUpdates) : uiUpdates[k].waiter = i
           ELSE ENABLED (AppReply(i) \/ AppValidateWrite(i) \/ AppQueue(i)
                         \/ AppResume(i))

\* C23: while the process runs, the UI goroutine reaches every a.mu.Lock()
\* with the mutex free (the mutex is held only inside the handler or queued
\* function that took it), and every goroutine that waits, waits for one
\* that can take a step: a webhook handler for the aggregator, the
\* aggregator for the UI goroutine, the UI goroutine for nobody.
C23_NoDeadlock ==
  proc = "running" =>
    /\ uiPc \in {"off", "idle", "deleting", "stopped"} => mu = "free"
    /\ mu # "free" => (mu = "ui" /\ uiPc \in {"handler", "update"})
    /\ UICanMove
    /\ AggCanMove
    /\ \A i \in 1..MaxReq : Pending(i) => HandlerCanMove(i)
C23_Witness ==
  /\ build = "server" /\ proc = "running"
  /\ uiPc = "handler" /\ mu = "ui"
  /\ aggPc = "waiting" /\ uiUpdates # <<>>
  /\ Len(webhookChan) = WebhookChanCap
  /\ \E i \in Reqs : reqs[i].pc = "start"

\* ---------------------------------------------------- panel claims
\* what a step of a menu handler and a step of the queued append may do to
\* the two panels
PanelStep ==
  /\ (uiPc = "handler" \/ uiPc' = "handler") => webhookOutput' = webhookOutput
  /\ uiPc = "update" => output' = output
  /\ (uiPc = "update" /\ uiPc' = "idle") =>
       webhookOutput' = webhookOutput \o Head(uiUpdates).text
  /\ (uiPc = "idle" /\ uiPc' = "handler") =>
       output' = Header(uiCur'.name, uiCur'.arg)
  /\ (uiPc = "handler" /\ uiPc' = "idle") =>
       \E o \in {"ok", "err"} :
         output' = Header(uiCur.name, uiCur.arg) \o BodyText(uiCur.name, o)

\* C24: a menu handler changes only the output panel and the aggregator's
\* append only the webhook panel; a handler starts by clearing the output
\* panel, so while it runs and after it has returned the panel starts with
\* the header of that action and holds nothing of an earlier one.
C24_PanelsChangedByDisjointOperations ==
  /\ [](uiPc = "handler" =>
          SubSeq(output, 1, 3) = Header(uiCur.name, uiCur.arg))
  /\ [][PanelStep]_vars
C24_Witness ==
  /\ build = "server" /\ proc = "running"
  /\ uiPc = "idle" /\ keys = 2
  /\ webhookOutput = FmtStarting(":port")
  /\ uiCur.name = "ListRooms"
  /\ output = Header("ListRooms", "") \o BodyText("ListRooms", "err")

\* ---------------------------------------------------- input field claims
\* a step in which Enter is handled in the input field
EnterStep == keys' = keys + 1 /\ lastKey'.key = "enter"

\* what the steps around the delete done func do
DeleteStep ==
  /\ deleteEmail' # deleteEmail =>
       (uiPc = "handler" /\ uiCur.name = "DeleteEvent")
  /\ (uiPc = "handler" /\ uiCur.name = "DeleteEvent" /\ uiPc' = "idle") =>
       (inputDone' = "delete" /\ deleteEmail' = uiCur.arg /\ focus' = "input")
  /\ (EnterStep /\ inputDone = "delete" /\ lastKey'.text # "") =>
       /\ uiPc' = "deleting"
       /\ api' = [op |-> "DeleteCall", n |-> 1, deadline |-> NoDeadline,
                  result |-> "pending"]
       /\ callUser' = deleteEmail /\ deleteEmail \in Emails
       /\ inputDone' = "delete"
  /\ (uiPc = "deleting" /\ uiPc' # "deleting") =>
       /\ api' \in {[api EXCEPT !.result = r] : r \in {"ok", "err"}}
       /\ callUser' = callUser
       /\ inputText' = "" /\ inputDone' = "default" /\ focus' = "menu"
       /\ uiPc' = "idle"
  /\ (EnterStep /\ inputDone = "default") =>
       /\ uiPc' = "handler" /\ uiCur'.name = "Input"
       /\ api' = NoCall /\ inputDone' = "default"

\* C25: with the delete done func installed, Enter with a non-empty event ID
\* issues one delete call for the email of the Delete item chosen last; when
\* the call has returned, with an error or not, the field is empty, the
\* default done func is back and the menu has the focus; with the default
\* done func, Enter runs handleInput and issues no call.
C25_DeleteOnceThenDefaultInput ==
  /\ [](uiPc = "deleting" =>
          /\ api = [op |-> "DeleteCall", n |-> 1, deadline |-> NoDeadline,
                    result |-> "pending"]
          /\ callUser = deleteEmail /\ inputDone = "delete")
  /\ [][DeleteStep]_vars
C25_Witness ==
  /\ deleteEmail = "room" /\ inputDone = "default"
  /\ keys = 4 /\ lastKey = [key |-> "enter", text |-> "ev1"]
  /\ uiPc = "handler" /\ uiCur = [name |-> "Input", arg |-> "ev1"]
  /\ api = NoCall

\* Enter with an empty field while the delete done func is installed
EmptyIdStep ==
  (EnterStep /\ inputDone = "delete" /\ lastKey'.text = "") =>
    /\ api' = api /\ callUser' = callUser /\ uiPc' = "idle"
    /\ output' = output \o <<"[red]Error: Event ID cannot be empty[white]\n">>
    /\ inputDone' = "delete" /\ deleteEmail' = deleteEmail
    /\ focus' = "input" /\ focus = "input"

\* C26: with the delete done func installed, Enter with an empty event ID
\* issues no delete call, appends the line "Event ID cannot be empty" to the
\* output panel and leaves the delete done func installed and the focus on
\* the input field.
C26_EmptyIdKeepsFieldArmed == [][EmptyIdStep]_vars
C26_Witness ==
  /\ lastKey = [key |-> "enter", text |-> ""]
  /\ inputDone = "delete" /\ focus = "input" /\ deleteEmail = "organiser"
  /\ uiPc = "idle" /\ api = NoCall
  /\ Contains(output, <<"[red]Error: Event ID cannot be empty[white]\n">>)
  /\ Contains(output, Header("DeleteEvent", "organiser"))

\* ---------------------------------------------------- identity claims
\* C27: the create-event request of a "Create Event" item is made for the
\* user the item names: the room for "By Room", the organiser for
\* "By Organiser".
C27_CreateEventUsesSelectedIdentity ==
  (uiCur.name = "CreateEvent" /\ api.op = "CreateEvent") =>
    callUser = uiCur.arg

\* ---------------------------------------------------- event claims
\* the event goes through the statements that print its flags
ReachesFlags(fn, e) == e.timeOk \/ fn = "CreateEvent"

\* the events printed to the end so far whose is-organiser flag is absent
AbsentShown ==
  {k \in 1..Len(render.events) :
     /\ k < render.i
     /\ ReachesFlags(render.fn, render.events[k])
     /\ render.events[k].organizer = Nil}

NotOrganiserLines ==
  {j \in 1..Len(render.out) : render.out[j].text = "isOrganiser: [red]"}

\* C28: an event whose is-organiser flag is absent (nil) is printed as
\* not-organiser and the printing continues: the absent flag is never read,
\* so no panic comes from it, in ListRoom7DaysBookings and in CreateEvent.
C28_AbsentIsOrganiserNeverRead ==
  /\ render.cause # "isOrganizer"
  /\ Cardinality(NotOrganiserLines) >= Cardinality(AbsentShown)

\* the same for the events that carry the flag: true or false is printed
\* and the flag is no cause of a panic
PresentIsOrganiserShown ==
  (\A k \in 1..Len(render.events) : render.events[k].organizer # Nil)
    => render.cause # "isOrganizer"

\* ---------------------------------------------------- text menu claims
\* the loop of main is over: by break, or because the process ended
CliLoopEnded == cli.pc \in {"done", "panicked", "exited"}

\* the loop ends exactly when 0 was entered: it is over only after choice 0,
\* and it does not prompt again after choice 0
CliEndsIffZero ==
  /\ CliLoopEnded => cli.choice = 0
  /\ (cli.pc = "prompt" /\ cli.prompts > 0) => cli.choice # 0

\* an unreadable choice is -1
CliUnreadableIsMinusOne ==
  (cli.pc = "switch" /\ cli.input = Unreadable) => cli.choice = -1

\* a choice that is not listed prints the invalid-choice line, runs no
\* operation and goes back to the prompt
CliMainStep == cli' # cli /\ cli'.server = cli.server

CliInvalidStep ==
  /\ (cli.pc = "switch" /\ cli.choice \notin CliOptions /\ CliMainStep)
       => /\ cli'.invalid = cli.invalid + 1
          /\ cli'.ran = cli.ran
          /\ cli'.pc = "check"
  /\ (cli.pc = "check" /\ cli.choice \notin CliOptions /\ CliMainStep)
       => cli'.pc = "prompt"
  /\ cli'.invalid # cli.invalid
       => (cli.pc = "switch" /\ cli.choice \notin CliOptions)

\* C29: the text menu loop ends if and only if choice 0 is entered; an
\* unreadable choice is treated as -1; a choice that is not a listed option
\* prints "Invalid choice! Please try again.", runs no operation and
\* prompts again.
C29_MenuLoopEndsOnlyOnZero ==
  /\ [](CliEndsIffZero /\ CliUnreadableIsMinusOne)
  /\ [][CliInvalidStep]_vars

\* the loop statement alone: break is taken exactly on choice 0
CliBreakIffZero ==
  /\ cli.pc = "done" => cli.choice = 0
  /\ (cli.pc = "prompt" /\ cli.prompts > 0) => cli.choice # 0

\* what holds of the claim: the only break is on choice 0, and the
\* handling of unreadable and unlisted choices
CliLoopAsWritten ==
  /\ [](CliBreakIffZero /\ CliUnreadableIsMinusOne)
  /\ [][CliInvalidStep]_vars

\* ---------------------------------------------------- cache claims
\* C30: the room cache is dead code: no operation ever stores a room in the
\* cache, GetRoom returns (nil, nil) for every email after any sequence of
\* calls, and a caller has released the read lock before it takes the write
\* lock.
C30_RoomCacheIsDead ==
  /\ cache.rooms = {}
  /\ \A c \in DOMAIN cache.ret : cache.ret[c] \in {"none", Nil}
  /\ \A c \in DOMAIN cache.pc :
       (cache.pc[c] \in {"lock", "fetch"} \/ cache.writer = c)
         => c \notin cache.readers

\* both callers have returned from GetRoom, one of them twice, and the
\* second call went through the write lock
C30_Witness ==
  /\ cache.calls = MaxCalls
  /\ \A c \in DOMAIN cache.pc : cache.pc[c] = "idle" /\ cache.ret[c] = Nil
  /\ cache.pc # <<>>

\* ---------------------------------------------------- specifications
\* the whole program, started with a loadable .env in which at most ENDPOINT
\* is missing; the requests are POSTs
Init == InitState(Builds, {TRUE}, {RequiredVars, RequiredVars \ {"ENDPOINT"}})
Next == Startup \/ ArrivePost \/ Handle \/ Aggregator \/ UILoop \/ Menu
Spec == Init /\ [][Next]_vars

\* the webhook path with every kind of request, no key pressed
InitWebhook == InitState(Builds, {TRUE}, {RequiredVars})
NextWebhook == Startup \/ Webhook \/ Aggregator \/ UILoop
SpecWebhook == InitWebhook /\ [][NextWebhook]_vars

\* the webhook path when the event loop starts, the ticker fires and the
\* aggregator and the UI goroutine are scheduled
SpecWebhookFair ==
  /\ SpecWebhook
  /\ WF_vars(RunUI) /\ WF_vars(AggReceive) /\ WF_vars(AggTick)
  /\ WF_vars(AggClear) /\ WF_vars(UpdateBegin) /\ WF_vars(UpdateEnd)

\* start-up in every environment
InitStartup == InitState(Builds, BOOLEAN, Envs)
NextStartup == Startup \/ MenuQuit \/ MainReturn
SpecStartup == InitStartup /\ [][NextStartup]_vars

\* the menu in every environment, no request arriving: the only string on the
\* notification channel is the one WebhookServer.Start sends
InitMenu == InitState(Builds, {TRUE}, Envs)
NextMenu == Startup \/ Aggregator \/ UILoop \/ Menu
SpecMenu == InitMenu /\ [][NextMenu]_vars

\* the menu when every Graph call returns
SpecMenuFair == SpecMenu /\ WF_vars(HandlerEnd) /\ WF_vars(DeleteEnterEnd)

\* the menu with the Graph helper called under any context
InitContext ==
  InitStateCtx(Builds, {TRUE}, {RequiredVars, RequiredVars \ {"ENDPOINT"}},
               Deadlines)
SpecContext == InitContext /\ [][NextMenu]_vars

\* the input field: the user presses MaxInputKeys keys and selects the two
\* Delete event items and Help only
InitInput ==
  InitSession(Builds, {TRUE}, {RequiredVars}, {Background}, MaxInputKeys)
NextInput ==
  \/ Startup \/ Aggregator \/ UILoop
  \/ MenuSelectFrom(InputItems) \/ InputEnter \/ HandlerEnd \/ MenuEnterText
  \/ MenuQuit \/ EscKey \/ DeleteEnterEmpty \/ DeleteEnterBegin
  \/ DeleteEnterEnd \/ MainReturn
SpecInput == InitInput /\ [][NextInput]_vars

\* the Graph helper printing a response: every combination of the optional
\* fields of up to MaxEvents events
InitRender ==
  /\ InitDashboard({"server"}, {TRUE}, {RequiredVars}, {Background}, 0)
  /\ \E f \in RenderFns :
       \E n \in (IF f = "CreateEvent" THEN {1} ELSE 0..MaxEvents) :
         \E es \in [1..n -> Events] :
           render = [fn |-> f, events |-> es, i |-> 1, out |-> <<>>,
                     pc |-> "loop", cause |-> ""]
  /\ cli = NoCli
  /\ cache = NoCache

NextRender ==
  \/ RenderEvent
  \/ RenderReturn

SpecRender == InitRender /\ [][NextRender]_vars

\* the text menu program, after its start-up, at the first prompt
InitCli ==
  /\ InitDashboard({"server"}, {TRUE}, {RequiredVars}, {Background}, 0)
  /\ render = NoRender
  /\ cli = [NoCli EXCEPT !.pc = "prompt", !.server = "starting"]
  /\ cache = NoCache

NextCli ==
  \/ CliRead
  \/ CliSwitch
  \/ CliOpEnd
  \/ CliCheck
  \/ CliServerListen
  \/ CliServerFatal

SpecCli == InitCli /\ [][NextCli]_vars

\* the room cache under concurrent calls of GetRoom
InitCache ==
  /\ InitDashboard({"server"}, {TRUE}, {RequiredVars}, {Background}, 0)
  /\ render = NoRender
  /\ cli = NoCli
  /\ cache = [NoCache EXCEPT !.pc = [c \in Callers |-> "idle"],
                             !.arg = [c \in Callers |-> ""],
                             !.ret = [c \in Callers |-> "none"]]

NextCache ==
  \E c \in Callers :
    \/ GetRoomCall(c)
    \/ GetRoomRLock(c)
    \/ GetRoomLookup(c)
    \/ GetRoomRUnlock(c)
    \/ GetRoomLock(c)
    \/ GetRoomReturn(c)

SpecCache == InitCache /\ [][NextCache]_vars

====
